---- MODULE Spec2Model ----
(***************************************************************************)
(* A model of the fit-optimising layout engine of svgtextbox.              *)
(*                                                                         *)
(* The text-shaping backend (pango) is an oracle: for a box and a font     *)
(* size it reports whether the text fits.  The oracle is deterministic but *)
(* otherwise arbitrary; in particular it need not be monotone in the font  *)
(* size.  Sizes and distances are abstract labels for the scaled units the *)
(* code hands to pango.                                                    *)
(*                                                                         *)
(* Spec        src/layout.rs: LayoutManager::new, get_best_fit and         *)
(*             Layout::grow_to_maximum_font_size                           *)
(* SpecLib     src/lib.rs: SVGTextBox::get_layout, static and grow         *)
(* SpecSignals the fits predicates of src/layout.rs and src/lib.rs over    *)
(*             the signals pango reports                                   *)
(* SpecDims    the specifications of widths, heights and font sizes:       *)
(*             src/input.rs, src/fontsizing.rs, src/textbox.rs             *)
(* SpecPadding padded textboxes: src/textbox.rs, src/xml_support.rs,       *)
(*             src/padded_textbox.rs                                       *)
(* SpecRect    the background rectangle of src/layout.rs                   *)
(* SpecMarkup  the markup sanitizers of src/lib.rs, src/checks.rs and      *)
(*             src/textbox.rs                                              *)
(* SpecTotals  the total paddings of src/textbox.rs and                    *)
(*             src/padded_textbox.rs                                       *)
(* SpecWriter  src/svgwriter.rs: find_maximum_font_size; SpecWriterFair is *)
(*             the same with weak fairness of its steps                    *)
(* SpecXml     textboxes from xml: src/xml_support.rs, src/xml_fetcher.rs, *)
(*             and the padding string of src/textbox.rs                    *)
(* SpecScale   pixels to scaled points and back: src/lib.rs,               *)
(*             src/checks.rs, src/svgwriter.rs, src/output.rs              *)
(***************************************************************************)
EXTENDS Integers, Sequences, FiniteSets, TLC

\* Width and height candidates are drawn from 1..MaxDimValue.
MaxDimValue == 2

\* The oracle table has at most this many entries:
\* #widths * #heights * #font sizes <= MaxProbeSpace.
MaxProbeSpace == 8

VARIABLES
    src_widths,      \* LayoutSource::possible_widths(), in the order the source yields them
    src_heights,     \* LayoutSource::possible_heights(), in the order the source yields them
    src_font_sizes,  \* LayoutSource::possible_font_sizes()
    fit,             \* the oracle: <<width, height, font size>> -> does the text fit
    searchImpl,      \* which slice::binary_search_by the toolchain ships
    pc,              \* "new" | "best_fit" | "done"
    dimensions,      \* LayoutManager.dimensions
    font_sizes,      \* LayoutManager.font_sizes
    layout,          \* LayoutManager.base_layout: [width, height, font_size]
    dimIdx,          \* position of the for loop of get_best_fit
    tried,           \* history: one record per dimension candidate tried
    result,          \* what RenderedTextbox::new got: "pending" or the Result
    lib_in,          \* the arguments of get_layout (lib.rs)
    lib_sig,         \* the oracle of lib.rs: base font size -> what pango reports
    lib_pc,          \* "call" | "generated" | "done"
    lib_layout,      \* the pango::Layout of get_layout: [font_size]
    lib_probes,      \* history: the sizes will_fit was asked about, with its answers
    lib_result,      \* what get_layout returned: "pending" or the Result
    sg,              \* one state of a layout, as pango reports it
    sg_verdict,      \* what each fits() answers in that state
    fn_in,           \* the argument of the parsing or arithmetic functions
    fn_out           \* what each of them returned for it

\* the variables of LayoutManager and its run
mgr_vars == <<src_widths, src_heights, src_font_sizes, fit, pc,
              dimensions, font_sizes, layout, dimIdx, tried, result>>

\* the variables of a call of get_layout (lib.rs)
lib_vars == <<lib_in, lib_sig, lib_pc, lib_layout, lib_probes, lib_result>>

\* the variables of a fits() evaluation
sg_vars == <<sg, sg_verdict>>

\* the variables of an evaluation of the functions without state
fn_vars == <<fn_in, fn_out>>

vars == <<mgr_vars, searchImpl, lib_vars, sg_vars, fn_vars>>

----------------------------------------------------------------------------
\* Helpers

Range(s) == {s[i] : i \in DOMAIN s}

IsInjective(s) == \A i, j \in DOMAIN s : i # j => s[i] # s[j]

IsAscending(s) == \A i, j \in DOMAIN s : i < j => s[i] < s[j]

Min(S) == CHOOSE x \in S : \A y \in S : x <= y

Max(S) == CHOOSE x \in S : \A y \in S : y <= x

RECURSIVE SortedSeq(_)
\* BTreeSet<i32>::into_iter().collect::<Vec<i32>>(): the elements ascending
SortedSeq(S) ==
    IF S = {} THEN <<>> ELSE <<Min(S)>> \o SortedSeq(S \ {Min(S)})

\* -1: pango's value for a width or height that has not been set
UNSET == 0 - 1

----------------------------------------------------------------------------
\* slice::binary_search_by, as called at layout.rs:312 and lib.rs:657.
\* cmp[i + 1] is the comparator's answer for the element at index i.
\* The result carries the indices probed, in order: every probe changes the
\* layout's font size.

RECURSIVE HalvingSearch(_, _, _, _)
\* the implementation of Rust up to 1.51 (and again from 1.82): base/size
HalvingSearch(cmp, base, size, probes) ==
    IF size > 1
    THEN LET half == size \div 2
             mid == base + half
         IN  HalvingSearch(cmp,
                           IF cmp[mid + 1] = "Greater" THEN base ELSE mid,
                           size - half,
                           Append(probes, mid))
    ELSE LET c == cmp[base + 1]
         IN  IF c = "Equal"
             THEN [found |-> TRUE, index |-> base, probes |-> Append(probes, base)]
             ELSE [found |-> FALSE,
                   index |-> base + (IF c = "Less" THEN 1 ELSE 0),
                   probes |-> Append(probes, base)]

RECURSIVE BisectSearch(_, _, _, _)
\* the implementation of Rust 1.52 to 1.81: left/right
BisectSearch(cmp, left, right, probes) ==
    IF left < right
    THEN LET mid == left + ((right - left) \div 2)
             c == cmp[mid + 1]
         IN  IF c = "Less"
             THEN BisectSearch(cmp, mid + 1, right, Append(probes, mid))
             ELSE IF c = "Greater"
             THEN BisectSearch(cmp, left, mid, Append(probes, mid))
             ELSE [found |-> TRUE, index |-> mid, probes |-> Append(probes, mid)]
    ELSE [found |-> FALSE, index |-> left, probes |-> probes]

BinarySearchBy(cmp, impl) ==
    IF Len(cmp) = 0
    THEN [found |-> FALSE, index |-> 0, probes |-> <<>>]
    ELSE IF impl = "halving"
         THEN HalvingSearch(cmp, 0, Len(cmp), <<>>)
         ELSE BisectSearch(cmp, 0, Len(cmp), <<>>)

----------------------------------------------------------------------------
\* layout.rs: impl LayoutExtension for Layout

\* change_size_and_check_fits: set the font size to n, then ask fits()
ChangeSizeAndCheckFits(f, w, h, n) ==
    IF f[<<w, h, n>>] THEN "Less" ELSE "Greater"

\* the font size the layout is left with by the probes of a search
SizeAfterProbes(v, probes, cur) ==
    IF Len(probes) = 0 THEN cur ELSE v[probes[Len(probes)] + 1]

\* variant: the smallest candidate is also given up when only it fits
NoSizeFits_AlsoAtOne(index) == index <= 1

\* "if index == 0": no possible size would fit
NoSizeFits(index) == index = 0

\* variant: the insertion index itself is taken for the last fitting size
LastFit_OffByOne(index) == index

\* "let last_fit = index - 1": the last size which does fit
LastFit(index) == index - 1

\* variant: the layout keeps the size of the last probe
ReapplySize_Skipped(selected, probed) == probed

\* the final set_font_size(*r) of grow_to_maximum_font_size
ReapplySize(selected, probed) == selected

\* grow_to_maximum_font_size(v) on a layout of width w, height h and font size cur
GrowToMaximumFontSize(v, f, w, h, cur, impl) ==
    LET cmp == [i \in 1..Len(v) |-> ChangeSizeAndCheckFits(f, w, h, v[i])]
        sr == BinarySearchBy(cmp, impl)
        probed == SizeAfterProbes(v, sr.probes, cur)
        sizes == [i \in 1..Len(sr.probes) |-> v[sr.probes[i] + 1]]
    IN  IF sr.found
        THEN [result |-> "UnexpectedNone", font_size |-> probed, probes |-> sizes]
        ELSE IF NoSizeFits(sr.index)
        THEN [result |-> "CouldNotFit", font_size |-> probed, probes |-> sizes]
        ELSE IF LastFit(sr.index) + 1 \notin DOMAIN v
        THEN [result |-> "UnexpectedNone", font_size |-> probed, probes |-> sizes]
        ELSE [result |-> "Ok",
              font_size |-> ReapplySize(v[LastFit(sr.index) + 1], probed),
              probes |-> sizes]

----------------------------------------------------------------------------
\* layout.rs: impl LayoutManager

RECURSIVE WidthMajorFrom(_, _, _)
\* every height for the first width, then every height for the next, ...
WidthMajorFrom(i, ws, hs) ==
    IF i > Len(ws)
    THEN <<>>
    ELSE [j \in 1..Len(hs) |-> <<ws[i], hs[j]>>] \o WidthMajorFrom(i + 1, ws, hs)

\* variant: the widths ascending at the minimum height, then the heights
\* ascending at the maximum width
PossibleDimensions_MinHeightThenMaxWidth(ws, hs) ==
    LET aw == SortedSeq(Range(ws))
        ah == SortedSeq(Range(hs))
    IN  [i \in 1..Len(aw) |-> <<aw[i], ah[1]>>]
            \o [j \in 1..(Len(ah) - 1) |-> <<aw[Len(aw)], ah[j + 1]>>]

\* variant: the candidates are sorted ascending before they are combined
PossibleDimensions_Sorted(ws, hs) ==
    WidthMajorFrom(1, SortedSeq(Range(ws)), SortedSeq(Range(hs)))

\* variant: every width for the first height, then every width for the next
PossibleDimensions_HeightMajor(ws, hs) ==
    [k \in 1..(Len(ws) * Len(hs)) |->
        <<ws[((k - 1) % Len(ws)) + 1], hs[((k - 1) \div Len(ws)) + 1]>>]

\* possible_widths().flat_map(|v| repeat(v).zip(possible_heights())).collect()
PossibleDimensions(ws, hs) ==
    [k \in 1..(Len(ws) * Len(hs)) |->
        <<ws[((k - 1) \div Len(hs)) + 1], hs[((k - 1) % Len(hs)) + 1]>>]

\* variant: a failed candidate ends the enumeration
BestFitContinues_StopsOnFailure(res) == FALSE

\* the match of get_best_fit: only CouldNotFit lets the loop go on
BestFitContinues(res) == res = "CouldNotFit"

\* variant: the widths are looked at before the heights
SourceError_WidthsFirst(sizes, ws, hs) ==
    IF Len(sizes) = 0
    THEN "NoValidFontSizes"
    ELSE IF Len(ws) = 0
    THEN "NoValidWidths"
    ELSE IF Len(hs) = 0
    THEN "NoValidHeights"
    ELSE "Ok"

\* the checks of LayoutManager::new, in their order: is_empty() of the font
\* sizes, peek() of the heights, peek() of the widths
SourceError(sizes, ws, hs) ==
    IF Len(sizes) = 0
    THEN "NoValidFontSizes"
    ELSE IF Len(hs) = 0
    THEN "NoValidHeights"
    ELSE IF Len(ws) = 0
    THEN "NoValidWidths"
    ELSE "Ok"

\* LayoutManager::new
LayoutManagerNew ==
    /\ pc = "new"
    /\ LET sizes == SortedSeq(Range(src_font_sizes))
           e == SourceError(sizes, src_widths, src_heights)
       IN  IF e # "Ok"
           THEN /\ result' = e
                /\ pc' = "done"
                /\ UNCHANGED <<dimensions, font_sizes>>
           ELSE /\ dimensions' = PossibleDimensions(src_widths, src_heights)
                /\ font_sizes' = sizes
                /\ pc' = "best_fit"
                /\ UNCHANGED result
    /\ UNCHANGED <<src_widths, src_heights, src_font_sizes, fit, searchImpl,
                   layout, dimIdx, tried, lib_vars, sg_vars,
                   fn_vars>>

\* get_best_fit: one iteration of the for loop
GetBestFitTry ==
    /\ pc = "best_fit"
    /\ dimIdx <= Len(dimensions)
    /\ LET width == dimensions[dimIdx][1]
           height == dimensions[dimIdx][2]
           g == GrowToMaximumFontSize(font_sizes, fit, width, height,
                                      layout.font_size, searchImpl)
       IN  /\ layout' = [width |-> width, height |-> height, font_size |-> g.font_size]
           /\ tried' = Append(tried, [width |-> width, height |-> height,
                                      result |-> g.result,
                                      font_size |-> g.font_size,
                                      probes |-> g.probes])
           /\ IF g.result = "Ok"
              THEN /\ result' = "Ok"
                   /\ pc' = "done"
                   /\ UNCHANGED dimIdx
              ELSE IF BestFitContinues(g.result)
              THEN /\ dimIdx' = dimIdx + 1
                   /\ UNCHANGED <<result, pc>>
              ELSE /\ result' = g.result
                   /\ pc' = "done"
                   /\ UNCHANGED dimIdx
    /\ UNCHANGED <<src_widths, src_heights, src_font_sizes, fit, searchImpl,
                   dimensions, font_sizes, lib_vars, sg_vars,
                   fn_vars>>

\* get_best_fit: the loop ran out of dimension candidates
GetBestFitExhausted ==
    /\ pc = "best_fit"
    /\ dimIdx > Len(dimensions)
    /\ result' = "CouldNotFit"
    /\ pc' = "done"
    /\ UNCHANGED <<src_widths, src_heights, src_font_sizes, fit, searchImpl,
                   dimensions, font_sizes, layout, dimIdx, tried, lib_vars, sg_vars,
                   fn_vars>>

----------------------------------------------------------------------------
\* lib.rs: trait LayoutBase and trait LayoutSizing, impl for pango::Layout.
\* Font sizes are in points: the code multiplies by pango::SCALE on the way
\* to pango, and so does the key of the oracle.

DISTANCE_MIN == 0

\* std::i32::MAX / pango::SCALE
DISTANCE_MAX == 2147483647 \div 1024

DEFAULT_FONT_SIZE == 10

\* The search of lib.rs runs over the sizes 0..MAX_FONT_SIZE - 1, where
\* MAX_FONT_SIZE is 500; the model runs it over 0..MaxFontSize - 1.
MaxFontSize == 4

\* the outcomes of check_markup
MarkupChecks ==
    {"Ok", "MarkupTooLong", "MarkupWhitespace", "MarkupNullChar", "BadMarkup"}

\* generate_from: the distances are checked first, then the markup
GenerateFrom(px_width, px_height, markup_check) ==
    IF \/ px_width <= DISTANCE_MIN
       \/ px_width > DISTANCE_MAX
       \/ px_height <= DISTANCE_MIN
       \/ px_height > DISTANCE_MAX
    THEN "Distance"
    ELSE markup_check

\* the closure will_fit of grow_to_maximum_font_size: change the font size to
\* n, then ask fits() and whether the last visible character is still the one
\* it was when the search began
WillFit(sig, n, orig_last_char) ==
    IF sig[n].fits /\ (sig[n].last_char_index = orig_last_char)
    THEN "Less"
    ELSE "Greater"

\* "match index { ..., 1 => 1 as usize, _ => (index - 1) as usize }"
UsizeI(index) == IF index = 1 THEN 1 ELSE index - 1

\* LayoutSizing::grow_to_maximum_font_size on a layout whose font description
\* has the size font0
SizingGrowToMaximumFontSize(sig, font0, impl) ==
    LET orig_last_char == sig[font0].last_char_index
        cmp == [k \in 1..MaxFontSize |-> WillFit(sig, k - 1, orig_last_char)]
        sr == BinarySearchBy(cmp, impl)
        asked == [i \in 1..Len(sr.probes) |->
                     [size |-> sr.probes[i], cmp |-> cmp[sr.probes[i] + 1]]]
        probed == IF Len(sr.probes) = 0 THEN font0 ELSE sr.probes[Len(sr.probes)]
    IN  IF sr.found
        THEN [result |-> "Panic", font_size |-> probed, probes |-> asked]
        ELSE IF sr.index < 1
        THEN [result |-> "MinFontSize", font_size |-> probed, probes |-> asked]
        ELSE IF UsizeI(sr.index) >= MaxFontSize
        THEN [result |-> "Panic", font_size |-> probed, probes |-> asked]
        ELSE [result |-> "Ok", font_size |-> UsizeI(sr.index), probes |-> asked]

\* variant: a font description without a size is left without one
StaticRequestedSize_NoDefault(font0) == font0

\* "if layout.font_size() <= 0 { change_font_size(DEFAULT_FONT_SIZE * SCALE) }"
StaticRequestedSize(font0) ==
    IF font0 <= 0 THEN DEFAULT_FONT_SIZE ELSE font0

\* the branch of get_layout for grow = false
StaticCheck(sig, font0) ==
    LET n == StaticRequestedSize(font0)
    IN  [result |-> IF sig[n].fits THEN "Ok" ELSE "StaticFontNoFit",
         font_size |-> n]

----------------------------------------------------------------------------
\* The fits() predicates over what pango reports of a layout:
\* is_ellipsized(), the ink extents, the box, the index xy_to_index gives for
\* the bottom right corner of the box, and the text's length in bytes.

\* the ink extents and the box are within 0..MaxExtent (offsets from -1)
MaxExtent == 2

\* the text has at most MaxTextLen bytes
MaxTextLen == 2

NorthwestBoundsExceeded(s) == (s.ink.x < 0) \/ (s.ink.y < 0)

SoutheastBoundsExceeded(s) ==
    \/ (s.ink.height + s.ink.y) > s.height
    \/ (s.ink.width + s.ink.x) > s.width

\* lib.rs, LayoutSizing::fits
LayoutSizingFits(s) ==
    ~(s.ellipsized \/ NorthwestBoundsExceeded(s) \/ SoutheastBoundsExceeded(s))

\* layout.rs: "last_char_index != (text_string.len() as i32 - 1)"
DroppedChars(s) == s.last_char_index # s.text_len - 1

\* layout.rs, LayoutExtension::fits
LayoutExtensionFits(s) == ~(s.ellipsized \/ DroppedChars(s))

----------------------------------------------------------------------------
\* Specifications of the admissible widths, heights and font sizes:
\* input.rs (ints_from_str), fontsizing.rs (FontSizing) and textbox.rs
\* (UnitContainer).
\* A string is given by the tokens split_whitespace yields and by whether it
\* is the empty string.  A token is an integer or NOT_A_NUMBER.

\* the numbers in a string or a specification are at most MaxToken
MaxToken == 4

\* a string has at most MaxTokens tokens
MaxTokens == 3

\* a token no integer type parses
NOT_A_NUMBER == 0 - 2

\* str::parse::<i32>, ::<u16> and ::<NonZeroU16> succeed
ParsesI32(t) == t # NOT_A_NUMBER
ParsesU16(t) == t >= 0
ParsesNonZeroU16(t) == t >= 1

\* Result: Ok(v) and Err(e)
Ok(v) == [err |-> "", val |-> v]
Err(e) == [err |-> e, val |-> <<>>]

\* input.rs, ints_from_str
IntsFromStr(src) ==
    IF src.is_empty
    THEN Err("IntsFromString")
    ELSE LET ints == src.tokens
             bad == {i \in DOMAIN ints : ~ParsesI32(ints[i]) \/ ints[i] <= 0}
         IN  IF bad # {}
             THEN IF ParsesI32(ints[Min(bad)])
                  THEN Err("IntsFromString")
                  ELSE Err("ParseIntError")
             ELSE IF Len(ints) = 2 /\ ints[2] > ints[1] /\ ~(ints[2] = ints[1])
             THEN Ok(ints[1]..ints[2])
             ELSE Ok(Range(ints))

\* fontsizing.rs, enum FontSizing; step is <<>> for None and <<s>> for Some(s)
Static(v) == [kind |-> "Static", v |-> v]
RangeOf(min, max, step) == [kind |-> "Range", min |-> min, max |-> max, step |-> step]
Flex(S) == [kind |-> "Flex", set |-> S]

\* impl Default for FontSizing
FontSizingDefault == RangeOf(10, 30, <<>>)

\* (min..=max).step_by(s), for s > 0
StepBy(min, max, s) ==
    [i \in 1..(IF min > max THEN 0 ELSE ((max - min) \div s) + 1) |->
        min + ((i - 1) * s)]

\* min..=max, with step_by(s) when there is a step; step_by(0) panics
RangeToVec(min, max, step) ==
    IF step = <<>>
    THEN Ok(StepBy(min, max, 1))
    ELSE IF step[1] = 0
    THEN Err("Panic")
    ELSE Ok(StepBy(min, max, step[1]))

\* FontSizing::to_vec
FontSizingToVec(f) ==
    IF f.kind = "Static"
    THEN Ok(<<f.v>>)
    ELSE IF f.kind = "Flex"
    THEN Ok(SortedSeq(f.set))
    ELSE RangeToVec(f.min, f.max, f.step)

\* variant: two sizes are taken as a selection of two, like any other list
FontSizingFromVec_NoRange(v) ==
    IF Len(v) = 0
    THEN FontSizingDefault
    ELSE IF Len(v) = 1
    THEN Static(v[1])
    ELSE Flex(Range(v))

\* FontSizing::from_vec
FontSizingFromVec(v) ==
    IF Len(v) = 0
    THEN FontSizingDefault
    ELSE IF Len(v) = 1
    THEN Static(v[1])
    ELSE IF Len(v) = 2 /\ v[1] > v[2]
    THEN Flex(Range(v))
    ELSE IF Len(v) = 2 /\ v[1] < v[2]
    THEN Flex(Range(FontSizingToVec(RangeOf(v[1], v[2], <<>>)).val))
    ELSE Flex(Range(v))

\* impl FromStr for FontSizing
FontSizingFromStr(src) ==
    IF \E i \in DOMAIN src.tokens : ~ParsesU16(src.tokens[i])
    THEN Err("ParseIntError")
    ELSE Ok(FontSizingFromVec(src.tokens))

\* textbox.rs, enum UnitContainer
AsSet(S) == [kind |-> "AsSet", set |-> S]
AsRange(min, max, step) == [kind |-> "AsRange", min |-> min, max |-> max, step |-> step]

\* UnitContainer::iter
UnitContainerIter(u) ==
    IF u.kind = "AsSet"
    THEN Ok(SortedSeq(u.set))
    ELSE RangeToVec(u.min, u.max, u.step)

\* UnitContainerVisitor::visit_str
UnitContainerVisitStr(src) ==
    IF \E i \in DOMAIN src.tokens : ~ParsesNonZeroU16(src.tokens[i])
    THEN Err("invalid_value")
    ELSE IF Cardinality(Range(src.tokens)) = 0
    THEN Err("invalid_length")
    ELSE Ok(AsSet(Range(src.tokens)))

\* fontsizing.rs: the bounds a setter supplies for a specification that is
\* not a range
DEFAULT_MAX_SIZE == 500
DEFAULT_MIN_SIZE == 1

\* FontSizing::set_min_size
SetMinSize(f, s) ==
    IF f.kind = "Range"
    THEN RangeOf(s, f.max, f.step)
    ELSE RangeOf(s, DEFAULT_MAX_SIZE, <<>>)

\* FontSizing::set_max_size
SetMaxSize(f, s) ==
    IF f.kind = "Range"
    THEN RangeOf(f.min, s, f.step)
    ELSE RangeOf(DEFAULT_MIN_SIZE, s, <<>>)

\* input.rs: the bounds of a range of font sizes given without them
DEFAULT_MAX_FONT_SIZE == 500
DEFAULT_MIN_FONT_SIZE == 0

\* input.rs, FontSizing::Selection
Selection(v) == [kind |-> "Selection", v |-> v]

\* input.rs, FontSizing::from_range; min and max are <<>> for None and <<n>>
\* for Some(n)
FontSizingFromRange(min, max) ==
    IF min # <<>> /\ max = <<>>
    THEN Ok(Selection(StepBy(min[1], DEFAULT_MAX_FONT_SIZE, 1)))
    ELSE IF min = <<>> /\ max # <<>>
    THEN Ok(Selection(StepBy(DEFAULT_MIN_FONT_SIZE, max[1], 1)))
    ELSE IF min = <<>> /\ max = <<>>
    THEN Ok(Selection(StepBy(DEFAULT_MIN_FONT_SIZE, DEFAULT_MAX_FONT_SIZE, 1)))
    ELSE IF max[1] < min[1]
    THEN Err("BadFontRange")
    ELSE Ok(Selection(StepBy(min[1], max[1], 1)))

\* std::u16::MAX
U16_MAX == 65535

\* UnitContainerVisitor::visit_map, for a map with the keys min, max and step
\* (each <<>> when the key is absent)
UnitContainerVisitMap(m) ==
    LET max == IF m.max = <<>> THEN U16_MAX ELSE m.max[1]
        min == IF m.min = <<>> THEN 1 ELSE m.min[1]
    IN  Ok(AsRange(min, max, m.step))

----------------------------------------------------------------------------
\* Padding: textbox.rs (PaddingSpecification and the LayoutSource of TextBox),
\* xml_support.rs (from_backgrounded_element_to_element_group) and
\* padded_textbox.rs (PaddingSpecification::from_vec).
\* The sides of a padding in textbox.rs are u16; the sum of two sides is a
\* u16 addition, which panics in a build with overflow checks ("debug") and
\* wraps in a build without them ("release").

\* pango::SCALE
SCALE == 1024

\* the sides of a padding are at most MaxPad, or U16_MAX
MaxPad == 1

\* the widths and heights of a textbox are at most MaxSide
MaxSide == 2

\* a padding is read from at most MaxPadValues values
MaxPadValues == 5

PaddingSpecification(top, right, bottom, left) ==
    [top |-> top, right |-> right, bottom |-> bottom, left |-> left]

\* a + b for a, b: u16
U16Add(a, b, build) ==
    IF a + b <= U16_MAX
    THEN Ok(a + b)
    ELSE IF build = "debug"
    THEN Err("Panic")
    ELSE Ok((a + b) % (U16_MAX + 1))

\* a / b for a, b: i32, b > 0 (the quotient is truncated towards zero)
I32Div(a, b) == IF a >= 0 THEN a \div b ELSE 0 - ((0 - a) \div b)

\* textbox.rs, PaddingSpecification::total_horizontal_padding
TotalHorizontalPadding(p, build) == U16Add(p.left, p.right, build)

\* textbox.rs, PaddingSpecification::total_vertical_padding
TotalVerticalPadding(p, build) == U16Add(p.top, p.bottom, build)

\* the candidates of a container, scaled, each less the scaled padding; the
\* padding is summed when the first candidate is taken
ScaledLessPadding(container, pad) ==
    LET c == UnitContainerIter(container)
    IN  IF c.err # ""
        THEN c
        ELSE IF c.val # <<>> /\ pad.err # ""
        THEN pad
        ELSE Ok([i \in DOMAIN c.val |-> (c.val[i] * SCALE) - (pad.val * SCALE)])

\* textbox.rs, LayoutSource for TextBox: possible_widths
PossibleWidths(t) ==
    ScaledLessPadding(t.width, TotalHorizontalPadding(t.padding, t.build))

\* textbox.rs, LayoutSource for TextBox: possible_heights; the candidates
\* are those of self.width
PossibleHeights(t) ==
    ScaledLessPadding(t.width, TotalVerticalPadding(t.padding, t.build))

\* layout.rs, LayoutManager::new for a TextBox (its font sizes are not empty)
TextBoxLayoutManagerNew(t) ==
    LET hs == PossibleHeights(t)
        ws == PossibleWidths(t)
    IN  IF hs.err # ""
        THEN hs
        ELSE IF hs.val = <<>>
        THEN Err("NoValidHeights")
        ELSE IF ws.err # ""
        THEN ws
        ELSE IF ws.val = <<>>
        THEN Err("NoValidWidths")
        ELSE Ok(PossibleDimensions(ws.val, hs.val))

\* textbox.rs, LayoutSource for TextBox: output_width and output_height
OutputWidth(t, layout_width) ==
    LET pad == TotalHorizontalPadding(t.padding, t.build)
    IN  IF pad.err # "" THEN pad ELSE Ok(I32Div(layout_width, SCALE) + pad.val)

OutputHeight(t, layout_height) ==
    LET pad == TotalVerticalPadding(t.padding, t.build)
    IN  IF pad.err # "" THEN pad ELSE Ok(I32Div(layout_height, SCALE) + pad.val)

\* textbox.rs, LayoutSource for TextBox: output_x and output_y
OutputX(t) == t.padding.left
OutputY(t) == t.padding.top

\* layout.rs, RenderedTextbox::new once get_best_fit has returned the layout
\* of the candidate d
RenderedTextboxOf(t, d) ==
    LET width == OutputWidth(t, d[1])
        height == OutputHeight(t, d[2])
    IN  IF width.err # ""
        THEN width
        ELSE IF height.err # ""
        THEN height
        ELSE Ok([layout_width |-> d[1], layout_height |-> d[2],
                 width |-> width.val, height |-> height.val,
                 x |-> OutputX(t), y |-> OutputY(t)])

\* xml_support.rs: get_width and get_height of
\* from_backgrounded_element_to_element_group (the sides are i32)
GetWidth(ps, w) == w - (ps.left + ps.right)
GetHeight(ps, h) == h - (ps.top + ps.bottom)

\* xml_support.rs: new_dimensions, for the widths and heights of the element
NewDimensions(t) ==
    [widths |-> {GetWidth(t.padding, w) : w \in t.width.set},
     heights |-> {GetHeight(t.padding, h) : h \in t.height.set}]

\* xml_support.rs: the image and the rectangle of the group, for the element
\* at (x, y) and the textbox_output of the given width and height
ElementGroup(t, x, y, width, height) ==
    [image |-> [width |-> width, height |-> height,
                x |-> x + t.padding.left, y |-> y + t.padding.top],
     rect |-> [width |-> width + t.padding.left + t.padding.right,
               height |-> height + t.padding.top + t.padding.bottom,
               x |-> x, y |-> y]]

\* xml_support.rs, PaddingSpecification::from_vec
XmlPaddingFromVec(v) ==
    IF Len(v) = 1
    THEN Ok(PaddingSpecification(v[1], v[1], v[1], v[1]))
    ELSE IF Len(v) = 2
    THEN Ok(PaddingSpecification(v[1], v[2], v[1], v[2]))
    ELSE IF Len(v) = 3
    THEN Ok(PaddingSpecification(v[1], v[2], v[3], v[2]))
    ELSE IF Len(v) = 4
    THEN Ok(PaddingSpecification(v[1], v[2], v[3], v[4]))
    ELSE Err("Generic")

\* xml_support.rs, PaddingSpecification::new
XmlPaddingNew(src) ==
    IF \E i \in DOMAIN src.tokens : ~ParsesI32(src.tokens[i])
    THEN Err("ParseIntError")
    ELSE XmlPaddingFromVec(src.tokens)

\* padded_textbox.rs, PaddingSpecification::from_vec
PaddedFromVec(v) ==
    IF Len(v) = 1
    THEN Ok(PaddingSpecification(v[1], v[1], v[1], v[1]))
    ELSE IF Len(v) = 2
    THEN Ok(PaddingSpecification(v[1], v[2], v[1], v[2]))
    ELSE IF Len(v) = 3
    THEN Ok(PaddingSpecification(v[1], v[2], v[3], v[2]))
    ELSE IF Len(v) = 4
    THEN Ok(PaddingSpecification(v[1], v[2], v[3], v[4]))
    ELSE Err("PaddingError")

\* padded_textbox.rs, PaddingSpecification::from_str
PaddedFromStr(src) ==
    IF \E i \in DOMAIN src.tokens : ~ParsesU16(src.tokens[i])
    THEN Err("PaddingError")
    ELSE PaddedFromVec(src.tokens)

\* textbox.rs: "match values[..4]"; the slice of the first four values does
\* not exist for fewer than four, and has four elements otherwise
MatchFirstFour(values) ==
    IF Len(values) < 4
    THEN Err("Panic")
    ELSE Ok(PaddingSpecification(values[1], values[2], values[3], values[4]))

\* textbox.rs, PaddingSpecificationVisitor::visit_str
PaddingVisitStr(src) ==
    IF \E i \in DOMAIN src.tokens : ~ParsesU16(src.tokens[i])
    THEN Err("invalid_value")
    ELSE MatchFirstFour(src.tokens)

\* textbox.rs, PaddingSpecificationVisitor::visit_seq: the values are read
\* until there are more than four
PaddingVisitSeq(src) ==
    LET n == Min({Len(src.tokens), 5} \cup
                 {i \in DOMAIN src.tokens : ~ParsesU16(src.tokens[i])})
    IN  IF n \in DOMAIN src.tokens /\ ~ParsesU16(src.tokens[n])
        THEN Err("invalid_type")
        ELSE MatchFirstFour(SubSeq(src.tokens, 1, n))

----------------------------------------------------------------------------
\* The background rectangle: layout.rs, RenderedTextbox::insert_background_rect
\* and textbox.rs, TextBox::to_svg_image.
\* The svg image is the sequence of its tags; a tag is a record, and the
\* rectangle carries its attributes, a function from names to strings.

\* the outer width and height of a rendered textbox are at most MaxOuter
MaxOuter == 2

Tag(name) == [tag |-> name]
RectTag(attrs) == [tag |-> "rect", attrs |-> attrs]

\* variant: the attributes of the caller are set last
RectAttributes_CallerLast(attrs, width, height) ==
    [k \in DOMAIN attrs \cup {"x", "y", "width", "height"} |->
        IF k \in DOMAIN attrs THEN attrs[k]
        ELSE IF k \in {"x", "y"} THEN "0"
        ELSE IF k = "width" THEN ToString(width)
        ELSE ToString(height)]

\* the BTreeMap a: the attributes of the caller, then x, y, width and height
\* inserted over them
RectAttributes(attrs, width, height) ==
    [k \in DOMAIN attrs \cup {"x", "y", "width", "height"} |->
        IF k \in {"x", "y"} THEN "0"
        ELSE IF k = "width" THEN ToString(width)
        ELSE IF k = "height" THEN ToString(height)
        ELSE attrs[k]]

RECURSIVE ReplaceDefsEnd(_, _)
\* src.replace("</defs>", "</defs>\n<g>\n<rect .../>\n</g>")
ReplaceDefsEnd(src, rect) ==
    IF src = <<>>
    THEN <<>>
    ELSE IF Head(src) = Tag("/defs")
    THEN <<Tag("/defs"), Tag("g"), rect, Tag("/g")>> \o ReplaceDefsEnd(Tail(src), rect)
    ELSE <<Head(src)>> \o ReplaceDefsEnd(Tail(src), rect)

\* RenderedTextbox::insert_background_rect
InsertBackgroundRect(image, attrs) ==
    [image EXCEPT !.src =
        ReplaceDefsEnd(image.src,
                       RectTag(RectAttributes(attrs, image.width, image.height)))]

\* PaddingSpecification::has_values
HasValues(p) == p.top # 0 \/ p.bottom # 0 \/ p.left # 0 \/ p.right # 0

\* TextBox::to_svg_image, once RenderedTextbox::new has returned image
ToSvgImage(image, padding, padding_attrs) ==
    IF HasValues(padding) /\ DOMAIN padding_attrs # {}
    THEN InsertBackgroundRect(image, padding_attrs)
    ELSE image

----------------------------------------------------------------------------
\* Markup: lib.rs (check_markup), checks.rs (Markup::new) and textbox.rs
\* (PangoCompatibleString::new).
\* A string is the sequence of its characters.  Pango is an oracle for the
\* experimental parse; of its rules the model keeps the one on ampersands:
\* an ampersand has to begin the entity "&amp;".

\* a markup has at most MaxMarkupLen characters
MaxMarkupLen == 4

MAX_MARKUP_LEN == 1000

\* char::is_whitespace, and \s of the regex
IsWhitespace(c) == c = " "

RECURSIVE TrimStart(_)
TrimStart(m) ==
    IF m # <<>> /\ IsWhitespace(Head(m)) THEN TrimStart(Tail(m)) ELSE m

RECURSIVE TrimEnd(_)
TrimEnd(m) ==
    IF m # <<>> /\ IsWhitespace(m[Len(m)])
    THEN TrimEnd(SubSeq(m, 1, Len(m) - 1))
    ELSE m

\* str::trim
Trim(m) == TrimEnd(TrimStart(m))

\* "&amp;"
AMP == <<"&", "a", "m", "p", ";">>

\* Regex "&(?P<w>\s+)": is_match
IsolatedAmpersandIsMatch(m) ==
    \E i \in 1..(Len(m) - 1) : m[i] = "&" /\ IsWhitespace(m[i + 1])

RECURSIVE ReplaceAll(_)
\* Regex "&(?P<w>\s+)": replace_all(m, "&amp;$w")
ReplaceAll(m) ==
    IF m = <<>>
    THEN <<>>
    ELSE IF Head(m) = "&" /\ Len(m) >= 2 /\ IsWhitespace(m[2])
    THEN AMP \o ReplaceAll(Tail(m))
    ELSE <<Head(m)>> \o ReplaceAll(Tail(m))

\* pango::parse_markup(m, ACCEL_MARKER) is Ok
PangoParses(m) ==
    \A i \in DOMAIN m :
        m[i] = "&" => (i + 4 <= Len(m) /\ SubSeq(m, i, i + 4) = AMP)

\* the character '\u{0}': NULL_CHAR and ACCEL_MARKER
NUL == "NUL"

\* lib.rs, check_whitespace
CheckWhitespace(m) ==
    IF m = <<>> \/ \A i \in DOMAIN m : IsWhitespace(m[i])
    THEN Err("MarkupWhitespace")
    ELSE IF NUL \in Range(m)
    THEN Err("MarkupNullChar")
    ELSE Ok(m)

\* lib.rs, check_markup
CheckMarkup(initial_markup) ==
    LET trimmed == Trim(initial_markup)
        markup == IF "&" \in Range(trimmed) /\ IsolatedAmpersandIsMatch(trimmed)
                  THEN ReplaceAll(trimmed)
                  ELSE trimmed
    IN  IF Len(trimmed) > MAX_MARKUP_LEN
        THEN Err("MarkupTooLong")
        ELSE IF CheckWhitespace(trimmed).err # ""
        THEN CheckWhitespace(trimmed)
        ELSE IF PangoParses(markup)
        THEN Ok(markup)
        ELSE Err("BadMarkup")

\* checks.rs, Markup::new; the regex is matched against m and replaces in m
MarkupNew(m) ==
    LET trimmed == Trim(m)
        markup == IF "&" \in Range(trimmed) /\ IsolatedAmpersandIsMatch(m)
                  THEN ReplaceAll(m)
                  ELSE trimmed
    IN  IF Len(trimmed) > MAX_MARKUP_LEN
        THEN Err("Markup too long")
        ELSE IF \/ trimmed = <<>>
                \/ \A i \in DOMAIN trimmed : IsWhitespace(trimmed[i])
                \/ NUL \in Range(trimmed)
        THEN Err("Markup contains a null character or is empty")
        ELSE IF PangoParses(markup)
        THEN Ok(markup)
        ELSE Err("Improperly formatted markup")

\* textbox.rs, PangoCompatibleString::new
PangoCompatibleStringNew(m) ==
    LET trimmed == Trim(m)
        markup == IF "&" \in Range(trimmed) /\ IsolatedAmpersandIsMatch(trimmed)
                  THEN ReplaceAll(trimmed)
                  ELSE trimmed
    IN  IF \A i \in DOMAIN m : IsWhitespace(m[i])
        THEN Err("PCSWhitespace")
        ELSE IF NUL \in Range(m)
        THEN Err("BadChar")
        ELSE IF PangoParses(markup)
        THEN Ok(markup)
        ELSE Err("PangoError")

\* what a sanitizer returned for a markup, and what it returned for that
\* result again
Twice(first, again) ==
    [first |-> first, again |-> IF first.err = "" THEN again ELSE first]

----------------------------------------------------------------------------
\* The values of the variables a specification does not use

MgrIdle ==
    /\ src_widths = <<>>
    /\ src_heights = <<>>
    /\ src_font_sizes = <<>>
    /\ fit = <<>>
    /\ pc = "idle"
    /\ dimensions = <<>>
    /\ font_sizes = <<>>
    /\ layout = [width |-> UNSET, height |-> UNSET, font_size |-> 0]
    /\ dimIdx = 1
    /\ tried = <<>>
    /\ result = "pending"

LibIdle ==
    /\ lib_in = <<>>
    /\ lib_sig = <<>>
    /\ lib_pc = "idle"
    /\ lib_layout = [font_size |-> 0]
    /\ lib_probes = <<>>
    /\ lib_result = "pending"

SgIdle ==
    /\ sg = <<>>
    /\ sg_verdict = <<>>

FnIdle ==
    /\ fn_in = <<>>
    /\ fn_out = <<>>

----------------------------------------------------------------------------
\* The inputs of RenderedTextbox::new

\* the orders in which a source can yield distinct values of 1..MaxDimValue
DimLists ==
    {s \in UNION {[1..n -> 1..MaxDimValue] : n \in 0..MaxDimValue} : IsInjective(s)}

\* the font sizes a source offers: 1..k ascending, descending, or ascending
\* with the first repeated at the end
SizeLists ==
    UNION {{[i \in 1..k |-> i],
            [i \in 1..k |-> k + 1 - i],
            [i \in 1..k |-> i] \o <<1>>} : k \in 0..MaxProbeSpace}

Init ==
    /\ src_widths \in DimLists
    /\ src_heights \in DimLists
    /\ src_font_sizes \in SizeLists
    /\ Len(src_widths) * Len(src_heights) * Len(src_font_sizes) <= MaxProbeSpace
    /\ fit \in [Range(src_widths) \X Range(src_heights) \X Range(src_font_sizes)
                    -> BOOLEAN]
    /\ searchImpl \in {"halving", "bisect"}
    /\ pc = "new"
    /\ dimensions = <<>>
    /\ font_sizes = <<>>
    /\ layout = [width |-> UNSET, height |-> UNSET, font_size |-> 0]
    /\ dimIdx = 1
    /\ tried = <<>>
    /\ result = "pending"
    /\ LibIdle
    /\ SgIdle
    /\ FnIdle

Next ==
    \/ LayoutManagerNew
    \/ GetBestFitTry
    \/ GetBestFitExhausted

Spec == Init /\ [][Next]_vars

----------------------------------------------------------------------------
\* lib.rs: SVGTextBox::get_layout

\* the base font sizes pango can be asked about
LibSizes == (0..(MaxFontSize - 1)) \cup {DEFAULT_FONT_SIZE}

PxValues == {DISTANCE_MIN, 1, DISTANCE_MAX + 1}

\* the arguments of get_layout; font_size is the size of font_desc (0: none)
LibInputs ==
    [px_width : PxValues, px_height : PxValues, markup_check : MarkupChecks,
     font_size : LibSizes, grow : BOOLEAN]

Generates(in) == GenerateFrom(in.px_width, in.px_height, in.markup_check) = "Ok"

\* get_layout up to "generate_from(...)?"
GetLayoutGenerate ==
    /\ lib_pc = "call"
    /\ IF Generates(lib_in)
       THEN /\ lib_pc' = "generated"
            /\ lib_layout' = [font_size |-> lib_in.font_size]
            /\ UNCHANGED lib_result
       ELSE /\ lib_pc' = "done"
            /\ lib_result' = GenerateFrom(lib_in.px_width, lib_in.px_height,
                                          lib_in.markup_check)
            /\ UNCHANGED lib_layout
    /\ UNCHANGED <<lib_in, lib_sig, lib_probes, mgr_vars, searchImpl, sg_vars,
                   fn_vars>>

\* get_layout, grow: "layout.grow_to_maximum_font_size()?; Ok(layout)"
GetLayoutGrow ==
    /\ lib_pc = "generated"
    /\ lib_in.grow
    /\ LET g == SizingGrowToMaximumFontSize(lib_sig, lib_layout.font_size, searchImpl)
       IN  /\ lib_layout' = [font_size |-> g.font_size]
           /\ lib_probes' = g.probes
           /\ lib_result' = g.result
    /\ lib_pc' = "done"
    /\ UNCHANGED <<lib_in, lib_sig, mgr_vars, searchImpl, sg_vars,
                   fn_vars>>

\* get_layout, not grow: the default size if there is none, then fits()
GetLayoutStatic ==
    /\ lib_pc = "generated"
    /\ ~lib_in.grow
    /\ LET c == StaticCheck(lib_sig, lib_layout.font_size)
       IN  /\ lib_layout' = [font_size |-> c.font_size]
           /\ lib_result' = c.result
    /\ lib_pc' = "done"
    /\ UNCHANGED <<lib_in, lib_sig, lib_probes, mgr_vars, searchImpl, sg_vars,
                   fn_vars>>

\* What the oracle and the toolchain can be.  What a call never reads has one
\* value: a call that generates no layout reads no oracle, and a static call
\* reads neither last_char_index nor runs a search.
InitLib ==
    /\ MgrIdle
    /\ SgIdle
    /\ FnIdle
    /\ \/ /\ lib_in \in {in \in LibInputs :
                            ~Generates(in) /\ in.font_size = 0 /\ ~in.grow}
          /\ lib_sig = [n \in LibSizes |-> [fits |-> FALSE, last_char_index |-> 0]]
          /\ searchImpl = "halving"
       \/ /\ lib_in \in {in \in LibInputs : Generates(in) /\ ~in.grow}
          /\ lib_sig \in [LibSizes -> [fits : BOOLEAN, last_char_index : {0}]]
          /\ searchImpl = "halving"
       \/ /\ lib_in \in {in \in LibInputs : Generates(in) /\ in.grow}
          /\ lib_sig \in [LibSizes -> [fits : BOOLEAN, last_char_index : 0..1]]
          /\ searchImpl \in {"halving", "bisect"}
    /\ lib_pc = "call"
    /\ lib_layout = [font_size |-> 0]
    /\ lib_probes = <<>>
    /\ lib_result = "pending"

NextLib ==
    \/ GetLayoutGenerate
    \/ GetLayoutGrow
    \/ GetLayoutStatic

SpecLib == InitLib /\ [][NextLib]_vars

----------------------------------------------------------------------------
\* One layout state and the answers of the two fits() to it

SignalStates ==
    [ellipsized : BOOLEAN,
     ink : [x : (0 - 1)..1, y : (0 - 1)..1,
            width : 0..MaxExtent, height : 0..MaxExtent],
     width : 1..MaxExtent,
     height : 1..MaxExtent,
     last_char_index : 0..(MaxTextLen - 1),
     text_len : 0..MaxTextLen]

\* layout.rs: fits() is asked
AskLayoutExtensionFits ==
    /\ sg_verdict.extension = <<>>
    /\ sg_verdict' = [sg_verdict EXCEPT !.extension = <<LayoutExtensionFits(sg)>>]
    /\ UNCHANGED <<sg, mgr_vars, searchImpl, lib_vars, fn_vars>>

\* lib.rs: fits() is asked
AskLayoutSizingFits ==
    /\ sg_verdict.sizing = <<>>
    /\ sg_verdict' = [sg_verdict EXCEPT !.sizing = <<LayoutSizingFits(sg)>>]
    /\ UNCHANGED <<sg, mgr_vars, searchImpl, lib_vars, fn_vars>>

InitSignals ==
    /\ MgrIdle
    /\ LibIdle
    /\ FnIdle
    /\ searchImpl = "halving"
    /\ sg \in SignalStates
    /\ sg_verdict = [extension |-> <<>>, sizing |-> <<>>]

NextSignals ==
    \/ AskLayoutExtensionFits
    \/ AskLayoutSizingFits

SpecSignals == InitSignals /\ [][NextSignals]_vars

----------------------------------------------------------------------------
\* The constructors and enumerators of the specifications, one call each

Tokens == {NOT_A_NUMBER} \cup ((0 - 1)..MaxToken)

\* the strings: the empty string, and the strings of up to MaxTokens tokens
\* (without tokens: a string of whitespace)
Strings ==
    {[kind |-> "str", tokens |-> <<>>, is_empty |-> TRUE]}
        \cup {[kind |-> "str", tokens |-> t, is_empty |-> FALSE] :
                 t \in UNION {[1..n -> Tokens] : n \in 0..MaxTokens}}

\* step: None, Some(0), ..., Some(2)
Steps == {<<>>} \cup {<<s>> : s \in 0..2}

\* the values of FontSizing over the numbers 0..MaxToken
FontSizings ==
    {[kind |-> "fontsizing", f |-> f] :
        f \in {Static(v) : v \in 0..MaxToken}
                \cup {RangeOf(lo, hi, st) :
                          lo \in 0..MaxToken, hi \in 0..MaxToken, st \in Steps}
                \cup {Flex(S) : S \in SUBSET (0..MaxToken)}}

\* a bound given as an attribute or a key: Some(n) with n > 0, up to one more
\* than the default maximum, or None
Bounds ==
    {<<>>} \cup {<<n>> : n \in (1..MaxToken) \cup {DEFAULT_MAX_FONT_SIZE + 1}}

\* the maps with the keys min, max and step
Maps ==
    {[kind |-> "map", min |-> lo, max |-> hi, step |-> st] :
        lo \in Bounds, hi \in Bounds, st \in Steps}

\* the values of UnitContainer a deserialiser yields over the numbers
\* 1..MaxToken: a set is not empty, and a step is a NonZeroU16
UnitContainers ==
    {[kind |-> "unit", u |-> u] :
        u \in {AsSet(S) : S \in (SUBSET (1..MaxToken)) \ {{}}}
                \cup {AsRange(lo, hi, st) :
                          lo \in 1..MaxToken, hi \in 1..MaxToken,
                          st \in Steps \ {<<0>>}}}

NotCalled ==
    [ints_from_str |-> <<>>, fontsizing_from_str |-> <<>>, unit_visit_str |-> <<>>,
     round_trip |-> <<>>, unit_visit_map |-> <<>>, from_range |-> <<>>,
     set_min_size |-> <<>>, set_max_size |-> <<>>, unit_iter |-> <<>>]

\* fontsizing.rs, test_fontsizing: v = f.to_vec() and
\* FontSizing::from_vec(v.clone()).to_vec()
FontSizingRoundTrip(f) ==
    LET v == FontSizingToVec(f)
    IN  IF v.err # ""
        THEN [v |-> v, again |-> v]
        ELSE [v |-> v, again |-> FontSizingToVec(FontSizingFromVec(v.val))]

\* input.rs: ints_from_str(source)
CallIntsFromStr ==
    /\ fn_in.kind = "str"
    /\ fn_out.ints_from_str = <<>>
    /\ fn_out' = [fn_out EXCEPT !.ints_from_str = <<IntsFromStr(fn_in)>>]
    /\ UNCHANGED <<fn_in, mgr_vars, searchImpl, lib_vars, sg_vars>>

\* fontsizing.rs: source.parse::<FontSizing>()
CallFontSizingFromStr ==
    /\ fn_in.kind = "str"
    /\ fn_out.fontsizing_from_str = <<>>
    /\ fn_out' = [fn_out EXCEPT !.fontsizing_from_str = <<FontSizingFromStr(fn_in)>>]
    /\ UNCHANGED <<fn_in, mgr_vars, searchImpl, lib_vars, sg_vars>>

\* textbox.rs: a UnitContainer is deserialised from a string
CallUnitContainerVisitStr ==
    /\ fn_in.kind = "str"
    /\ fn_out.unit_visit_str = <<>>
    /\ fn_out' = [fn_out EXCEPT !.unit_visit_str = <<UnitContainerVisitStr(fn_in)>>]
    /\ UNCHANGED <<fn_in, mgr_vars, searchImpl, lib_vars, sg_vars>>

\* fontsizing.rs: a FontSizing is turned into its sizes and rebuilt from them
CallFontSizingRoundTrip ==
    /\ fn_in.kind = "fontsizing"
    /\ fn_out.round_trip = <<>>
    /\ fn_out' = [fn_out EXCEPT !.round_trip = <<FontSizingRoundTrip(fn_in.f)>>]
    /\ UNCHANGED <<fn_in, mgr_vars, searchImpl, lib_vars, sg_vars>>

\* textbox.rs: a UnitContainer is deserialised from a map
CallUnitContainerVisitMap ==
    /\ fn_in.kind = "map"
    /\ fn_out.unit_visit_map = <<>>
    /\ fn_out' = [fn_out EXCEPT !.unit_visit_map = <<UnitContainerVisitMap(fn_in)>>]
    /\ UNCHANGED <<fn_in, mgr_vars, searchImpl, lib_vars, sg_vars>>

\* input.rs: FontSizing::from_range(min_size, max_size)
CallFontSizingFromRange ==
    /\ fn_in.kind = "map"
    /\ fn_out.from_range = <<>>
    /\ fn_out' = [fn_out EXCEPT !.from_range =
                      <<FontSizingFromRange(fn_in.min, fn_in.max)>>]
    /\ UNCHANGED <<fn_in, mgr_vars, searchImpl, lib_vars, sg_vars>>

\* fontsizing.rs: f.set_min_size(s)
CallSetMinSize ==
    /\ fn_in.kind = "fontsizing"
    /\ fn_out.set_min_size = <<>>
    /\ \E s \in 0..MaxToken :
           fn_out' = [fn_out EXCEPT !.set_min_size = <<SetMinSize(fn_in.f, s)>>]
    /\ UNCHANGED <<fn_in, mgr_vars, searchImpl, lib_vars, sg_vars>>

\* fontsizing.rs: f.set_max_size(s)
CallSetMaxSize ==
    /\ fn_in.kind = "fontsizing"
    /\ fn_out.set_max_size = <<>>
    /\ \E s \in 0..MaxToken :
           fn_out' = [fn_out EXCEPT !.set_max_size = <<SetMaxSize(fn_in.f, s)>>]
    /\ UNCHANGED <<fn_in, mgr_vars, searchImpl, lib_vars, sg_vars>>

\* textbox.rs: u.iter().collect()
CallUnitContainerIter ==
    /\ fn_in.kind = "unit"
    /\ fn_out.unit_iter = <<>>
    /\ fn_out' = [fn_out EXCEPT !.unit_iter = <<UnitContainerIter(fn_in.u)>>]
    /\ UNCHANGED <<fn_in, mgr_vars, searchImpl, lib_vars, sg_vars>>

InitDims ==
    /\ MgrIdle
    /\ LibIdle
    /\ SgIdle
    /\ searchImpl = "halving"
    /\ fn_in \in Strings \cup FontSizings \cup Maps \cup UnitContainers
    /\ fn_out = NotCalled

NextDims ==
    \/ CallIntsFromStr
    \/ CallFontSizingFromStr
    \/ CallUnitContainerVisitStr
    \/ CallFontSizingRoundTrip
    \/ CallUnitContainerVisitMap
    \/ CallFontSizingFromRange
    \/ CallSetMinSize
    \/ CallSetMaxSize
    \/ CallUnitContainerIter

SpecDims == InitDims /\ [][NextDims]_vars

----------------------------------------------------------------------------
\* Padded textboxes, one call each

\* the side of a padding
Sides == (0..MaxPad) \cup {U16_MAX}

\* whether the sums of u16 are checked for overflow
Builds == {"debug", "release"}

\* the textboxes with a padding: width and height are sets of candidates
TextBoxes ==
    {[kind |-> "textbox", width |-> AsSet(W), height |-> AsSet(H),
      padding |-> PaddingSpecification(t, r, b, l), build |-> bd] :
        W \in (SUBSET (1..MaxSide)) \ {{}}, H \in (SUBSET (1..MaxSide)) \ {{}},
        t \in Sides, r \in Sides, b \in Sides, l \in Sides, bd \in Builds}

\* the values a padding is read from: a string of tokens, or a sequence
PaddingSources ==
    {[kind |-> "padding", tokens |-> t] :
        t \in UNION {[1..n -> {NOT_A_NUMBER} \cup (0..MaxPad)] : n \in 0..MaxPadValues}}

NoPaddingCall ==
    [manager |-> <<>>, rendered |-> <<>>, group |-> <<>>,
     xml_new |-> <<>>, padded_from_str |-> <<>>,
     visit_str |-> <<>>, visit_seq |-> <<>>]

\* layout.rs: LayoutManager::new(textbox), with the candidates the textbox
\* hands over
CallTextBoxLayoutManagerNew ==
    /\ fn_in.kind = "textbox"
    /\ fn_out = NoPaddingCall
    /\ fn_out' = [fn_out EXCEPT !.manager =
                      <<[widths |-> PossibleWidths(fn_in),
                         heights |-> PossibleHeights(fn_in),
                         dimensions |-> TextBoxLayoutManagerNew(fn_in)]>>]
    /\ UNCHANGED <<fn_in, mgr_vars, searchImpl, lib_vars, sg_vars>>

\* layout.rs: RenderedTextbox::new(textbox); get_best_fit returns the layout
\* of one of the candidates, whichever the text fits first, or CouldNotFit
CallRenderedTextboxNew ==
    /\ fn_in.kind = "textbox"
    /\ fn_out = NoPaddingCall
    /\ LET manager == TextBoxLayoutManagerNew(fn_in)
       IN  IF manager.err # ""
           THEN fn_out' = [fn_out EXCEPT !.rendered = <<manager>>]
           ELSE \/ \E d \in Range(manager.val) :
                       fn_out' = [fn_out EXCEPT !.rendered =
                                     <<RenderedTextboxOf(fn_in, d)>>]
                \/ fn_out' = [fn_out EXCEPT !.rendered = <<Err("CouldNotFit")>>]
    /\ UNCHANGED <<fn_in, mgr_vars, searchImpl, lib_vars, sg_vars>>

\* xml_support.rs: from_backgrounded_element_to_element_group for an element
\* at (x, y); the textbox_output has one of the new dimensions
CallFromBackgroundedElement ==
    /\ fn_in.kind = "textbox"
    /\ fn_out = NoPaddingCall
    /\ \E x \in 0..1, y \in 0..1 :
           \E w \in NewDimensions(fn_in).widths, h \in NewDimensions(fn_in).heights :
               fn_out' = [fn_out EXCEPT !.group =
                             <<[x |-> x, y |-> y,
                                new_dimensions |-> NewDimensions(fn_in),
                                textbox_output |-> [width |-> w, height |-> h],
                                out |-> ElementGroup(fn_in, x, y, w, h)]>>]
    /\ UNCHANGED <<fn_in, mgr_vars, searchImpl, lib_vars, sg_vars>>

\* xml_support.rs: PaddingSpecification::new(padding)
CallXmlPaddingNew ==
    /\ fn_in.kind = "padding"
    /\ fn_out.xml_new = <<>>
    /\ fn_out' = [fn_out EXCEPT !.xml_new = <<XmlPaddingNew(fn_in)>>]
    /\ UNCHANGED <<fn_in, mgr_vars, searchImpl, lib_vars, sg_vars>>

\* padded_textbox.rs: PaddingSpecification::from_str(s)
CallPaddedFromStr ==
    /\ fn_in.kind = "padding"
    /\ fn_out.padded_from_str = <<>>
    /\ fn_out' = [fn_out EXCEPT !.padded_from_str = <<PaddedFromStr(fn_in)>>]
    /\ UNCHANGED <<fn_in, mgr_vars, searchImpl, lib_vars, sg_vars>>

\* textbox.rs: a PaddingSpecification is deserialised from a string
CallPaddingVisitStr ==
    /\ fn_in.kind = "padding"
    /\ fn_out.visit_str = <<>>
    /\ fn_out' = [fn_out EXCEPT !.visit_str = <<PaddingVisitStr(fn_in)>>]
    /\ UNCHANGED <<fn_in, mgr_vars, searchImpl, lib_vars, sg_vars>>

\* textbox.rs: a PaddingSpecification is deserialised from a sequence
CallPaddingVisitSeq ==
    /\ fn_in.kind = "padding"
    /\ fn_out.visit_seq = <<>>
    /\ fn_out' = [fn_out EXCEPT !.visit_seq = <<PaddingVisitSeq(fn_in)>>]
    /\ UNCHANGED <<fn_in, mgr_vars, searchImpl, lib_vars, sg_vars>>

InitPadding ==
    /\ MgrIdle
    /\ LibIdle
    /\ SgIdle
    /\ searchImpl = "halving"
    /\ fn_in \in TextBoxes \cup PaddingSources
    /\ fn_out = NoPaddingCall

NextPadding ==
    \/ CallTextBoxLayoutManagerNew
    \/ CallRenderedTextboxNew
    \/ CallFromBackgroundedElement
    \/ CallXmlPaddingNew
    \/ CallPaddedFromStr
    \/ CallPaddingVisitStr
    \/ CallPaddingVisitSeq

SpecPadding == InitPadding /\ [][NextPadding]_vars

----------------------------------------------------------------------------
\* The total paddings of a PaddingSpecification, one call each

\* padded_textbox.rs, PaddingSpecification::horizontal_padding
HorizontalPadding(p, build) == U16Add(p.left, p.right, build)

\* padded_textbox.rs, PaddingSpecification::vertical_padding
VerticalPadding(p, build) == U16Add(p.top, p.bottom, build)

\* the paddings of sides 0..MaxPad or u16::MAX, in a build of either kind
SidesInputs ==
    {[kind |-> "sides", padding |-> PaddingSpecification(t, r, b, l), build |-> bd] :
        t \in Sides, r \in Sides, b \in Sides, l \in Sides, bd \in Builds}

NoTotalCall ==
    [total_horizontal |-> <<>>, total_vertical |-> <<>>,
     horizontal |-> <<>>, vertical |-> <<>>]

CallTotalHorizontalPadding ==
    /\ fn_in.kind = "sides"
    /\ fn_out.total_horizontal = <<>>
    /\ fn_out' = [fn_out EXCEPT !.total_horizontal =
                      <<TotalHorizontalPadding(fn_in.padding, fn_in.build)>>]
    /\ UNCHANGED <<fn_in, mgr_vars, searchImpl, lib_vars, sg_vars>>

CallTotalVerticalPadding ==
    /\ fn_in.kind = "sides"
    /\ fn_out.total_vertical = <<>>
    /\ fn_out' = [fn_out EXCEPT !.total_vertical =
                      <<TotalVerticalPadding(fn_in.padding, fn_in.build)>>]
    /\ UNCHANGED <<fn_in, mgr_vars, searchImpl, lib_vars, sg_vars>>

CallHorizontalPadding ==
    /\ fn_in.kind = "sides"
    /\ fn_out.horizontal = <<>>
    /\ fn_out' = [fn_out EXCEPT !.horizontal =
                      <<HorizontalPadding(fn_in.padding, fn_in.build)>>]
    /\ UNCHANGED <<fn_in, mgr_vars, searchImpl, lib_vars, sg_vars>>

CallVerticalPadding ==
    /\ fn_in.kind = "sides"
    /\ fn_out.vertical = <<>>
    /\ fn_out' = [fn_out EXCEPT !.vertical =
                      <<VerticalPadding(fn_in.padding, fn_in.build)>>]
    /\ UNCHANGED <<fn_in, mgr_vars, searchImpl, lib_vars, sg_vars>>

InitTotals ==
    /\ MgrIdle
    /\ LibIdle
    /\ SgIdle
    /\ searchImpl = "halving"
    /\ fn_in \in SidesInputs
    /\ fn_out = NoTotalCall

NextTotals ==
    \/ CallTotalHorizontalPadding
    \/ CallTotalVerticalPadding
    \/ CallHorizontalPadding
    \/ CallVerticalPadding

SpecTotals == InitTotals /\ [][NextTotals]_vars

----------------------------------------------------------------------------
\* Rendered textboxes and their background rectangle, one call each

\* the names and the values of the attributes a caller gives
AttrNames == {"fill", "x", "y", "width", "height"}
AttrValues == {"red", "7"}

PaddingAttrs == UNION {[K -> AttrValues] : K \in SUBSET AttrNames}

\* the images cairo writes: a defs block, with glyphs or without, then the
\* text
Sources ==
    {<<Tag("svg"), Tag("defs")>> \o glyphs \o <<Tag("/defs")>> \o text \o <<Tag("/svg")>> :
        glyphs \in {<<>>, <<Tag("symbol")>>},
        text \in {<<Tag("use")>>, <<Tag("use"), Tag("use")>>}}

RenderedTextboxes ==
    {[kind |-> "rendered",
      image |-> [src |-> src, width |-> w, height |-> h],
      padding |-> PaddingSpecification(t, 0, 0, l),
      padding_attrs |-> a] :
        src \in Sources, w \in 1..MaxOuter, h \in 1..MaxOuter,
        t \in 0..1, l \in 0..1, a \in PaddingAttrs}

NoRectCall == [inserted |-> <<>>, svg_image |-> <<>>]

\* layout.rs: image.insert_background_rect(&attrs)
CallInsertBackgroundRect ==
    /\ fn_in.kind = "rendered"
    /\ fn_out.inserted = <<>>
    /\ fn_out' = [fn_out EXCEPT !.inserted =
                      <<InsertBackgroundRect(fn_in.image, fn_in.padding_attrs)>>]
    /\ UNCHANGED <<fn_in, mgr_vars, searchImpl, lib_vars, sg_vars>>

\* textbox.rs: textbox.to_svg_image()
CallToSvgImage ==
    /\ fn_in.kind = "rendered"
    /\ fn_out.svg_image = <<>>
    /\ fn_out' = [fn_out EXCEPT !.svg_image =
                      <<ToSvgImage(fn_in.image, fn_in.padding, fn_in.padding_attrs)>>]
    /\ UNCHANGED <<fn_in, mgr_vars, searchImpl, lib_vars, sg_vars>>

InitRect ==
    /\ MgrIdle
    /\ LibIdle
    /\ SgIdle
    /\ searchImpl = "halving"
    /\ fn_in \in RenderedTextboxes
    /\ fn_out = NoRectCall

NextRect ==
    \/ CallInsertBackgroundRect
    \/ CallToSvgImage

SpecRect == InitRect /\ [][NextRect]_vars

----------------------------------------------------------------------------
\* Markup and its sanitizers, one call each

\* the characters of a markup: ampersand, whitespace, letter, NUL
MarkupChars == {"&", " ", "a", NUL}

\* the markups of about MAX_MARKUP_LEN letters, within one other character
\* at either end
LongMarkups ==
    {pre \o [i \in 1..n |-> "a"] \o post :
        n \in (MAX_MARKUP_LEN - 1)..(MAX_MARKUP_LEN + 1),
        pre \in UNION {[1..k -> MarkupChars] : k \in 0..1},
        post \in UNION {[1..k -> MarkupChars] : k \in 0..1}}

\* the markups: the short ones and the long ones
Markups ==
    {[kind |-> "markup", m |-> m] :
        m \in LongMarkups
                \cup UNION {[1..n -> MarkupChars] : n \in 0..MaxMarkupLen}}

NoMarkupCall == [check_markup |-> <<>>, markup_new |-> <<>>, pcs_new |-> <<>>]

\* lib.rs: check_markup(m), and check_markup of its result
CallCheckMarkup ==
    /\ fn_in.kind = "markup"
    /\ fn_out.check_markup = <<>>
    /\ fn_out' = [fn_out EXCEPT !.check_markup =
                      <<Twice(CheckMarkup(fn_in.m), CheckMarkup(CheckMarkup(fn_in.m).val))>>]
    /\ UNCHANGED <<fn_in, mgr_vars, searchImpl, lib_vars, sg_vars>>

\* checks.rs: Markup::new(m), and Markup::new of its result
CallMarkupNew ==
    /\ fn_in.kind = "markup"
    /\ fn_out.markup_new = <<>>
    /\ fn_out' = [fn_out EXCEPT !.markup_new =
                      <<Twice(MarkupNew(fn_in.m), MarkupNew(MarkupNew(fn_in.m).val))>>]
    /\ UNCHANGED <<fn_in, mgr_vars, searchImpl, lib_vars, sg_vars>>

\* textbox.rs: PangoCompatibleString::new(m), and the same of its result
CallPangoCompatibleStringNew ==
    /\ fn_in.kind = "markup"
    /\ fn_out.pcs_new = <<>>
    /\ fn_out' = [fn_out EXCEPT !.pcs_new =
                      <<Twice(PangoCompatibleStringNew(fn_in.m),
                              PangoCompatibleStringNew(
                                  PangoCompatibleStringNew(fn_in.m).val))>>]
    /\ UNCHANGED <<fn_in, mgr_vars, searchImpl, lib_vars, sg_vars>>

InitMarkup ==
    /\ MgrIdle
    /\ LibIdle
    /\ SgIdle
    /\ searchImpl = "halving"
    /\ fn_in \in Markups
    /\ fn_out = NoMarkupCall

NextMarkup ==
    \/ CallCheckMarkup
    \/ CallMarkupNew
    \/ CallPangoCompatibleStringNew

SpecMarkup == InitMarkup /\ [][NextMarkup]_vars

----------------------------------------------------------------------------
\* svgwriter.rs: LayoutFlexExt::find_maximum_font_size
\*
\* The search runs over FontSize::range(), the sizes 1..MAX_FONT_SIZE in
\* points; the model runs it over 1..MaxFontSize.  The binary search asks
\* the oracle in single-paragraph mode (fn_in.fits_single), the loop after it
\* asks the oracle in the normal mode (fn_in.fits).

\* checks.rs: FontSize::range().collect()
FontSizeRange == [i \in 1..MaxFontSize |-> i]

\* checks.rs: FontSize::new; the error carries the refused value
FontSizeNew(value) ==
    IF value = 0 \/ value > MaxFontSize \/ value < 1
    THEN Err("BadFontSize")
    ELSE Ok(value)

\* checks.rs: FontSize::step_down
StepDown(fs) == FontSizeNew(fs - 1)

\* font_size_matcher: change the font size to n, then ask fits()
FontSizeMatcher(f, n) == IF f[n] THEN "Less" ELSE "Greater"

\* "if !(index == 0) { index -= 1 }"
StartIndex(index) == IF index # 0 THEN index - 1 ELSE index

\* the fit probes recorded are capped at this many
MaxProbesKept == 8

KeepProbe(probes, n) ==
    IF Len(probes) < MaxProbesKept THEN Append(probes, n) ELSE probes

WriterStart == [pc |-> "search", fs |-> 0, search_probes |-> <<>>,
                loop_probes |-> <<>>]

\* the binary search in single-paragraph mode, and the size it starts the
\* loop from
FindMaximumSearch ==
    /\ fn_in.kind = "writer"
    /\ fn_out.pc = "search"
    /\ LET v == FontSizeRange
           cmp == [i \in 1..Len(v) |-> FontSizeMatcher(fn_in.fits_single, v[i])]
           sr == BinarySearchBy(cmp, searchImpl)
           index == StartIndex(sr.index)
       IN  fn_out' = [pc |-> "loop",
                      fs |-> FontSizeNew(v[index + 1]).val,
                      search_probes |-> [i \in 1..Len(sr.probes) |-> v[sr.probes[i] + 1]],
                      loop_probes |-> <<>>]
    /\ UNCHANGED <<fn_in, mgr_vars, searchImpl, lib_vars, sg_vars>>

\* one test of "while !self.fits()", and its body when the test succeeds
FindMaximumLoop ==
    /\ fn_in.kind = "writer"
    /\ fn_out.pc = "loop"
    /\ LET smaller == StepDown(fn_out.fs)
           probes == KeepProbe(fn_out.loop_probes, fn_out.fs)
       IN  fn_out' =
               IF fn_in.fits[fn_out.fs]
               THEN [fn_out EXCEPT !.pc = "done", !.loop_probes = probes]
               ELSE IF smaller.err = ""
               THEN [fn_out EXCEPT !.fs = smaller.val, !.loop_probes = probes]
               ELSE [fn_out EXCEPT !.loop_probes = probes]
    /\ UNCHANGED <<fn_in, mgr_vars, searchImpl, lib_vars, sg_vars>>

WriterInputs ==
    [kind : {"writer"},
     fits_single : [1..MaxFontSize -> BOOLEAN],
     fits : [1..MaxFontSize -> BOOLEAN]]

InitWriter ==
    /\ MgrIdle
    /\ LibIdle
    /\ SgIdle
    /\ searchImpl \in {"halving", "bisect"}
    /\ fn_in \in WriterInputs
    /\ fn_out = WriterStart

NextWriter ==
    \/ FindMaximumSearch
    \/ FindMaximumLoop

SpecWriter == InitWriter /\ [][NextWriter]_vars

\* the program keeps running: a step that is possible is eventually taken
SpecWriterFair == InitWriter /\ [][NextWriter]_vars /\ WF_vars(NextWriter)

----------------------------------------------------------------------------
\* Textboxes from xml: xml_support.rs, from_backgrounded_element_to_element_group,
\* and xml_fetcher.rs, TryFrom<HashMap> for TextBoxToRender.
\*
\* An attribute or a child that may be absent is an Option.  The elements
\* carry preserve-whitespace = "true", and no attribute of font or alignment;
\* the attribute maps carry nothing but "markup", so that every other value
\* is its default.

\* utils.rs: StringExt::is_non_whitespace
IsNonWhitespace(m) ==
    /\ ~(m = <<>> \/ \A i \in DOMAIN m : IsWhitespace(m[i]))
    /\ NUL \notin Range(m)

\* utils.rs: StringExt::to_pango_compatible
ToPangoCompatible(m) ==
    LET trimmed == Trim(m)
        markup == IF "&" \in Range(trimmed) /\ IsolatedAmpersandIsMatch(trimmed)
                  THEN ReplaceAll(trimmed)
                  ELSE trimmed
    IN  IF ~IsNonWhitespace(m)
        THEN Err("StringNotPangoCompatible")
        ELSE IF Len(trimmed) > MAX_MARKUP_LEN
        THEN Err("StringTooLong")
        ELSE IF PangoParses(markup)
        THEN Ok(markup)
        ELSE Err("StringNotPangoCompatible")

\* xml_support.rs: get_markup
GetMarkup(e) ==
    IF e.markup = <<>> THEN Err("XMLCouldNotFindMarkup") ELSE Ok(e.markup[1])

\* input.rs: layoutdimensions_from_hashmap
LayoutDimensionsFromHashMap(e) ==
    IF e.width = <<>> \/ e.height = <<>>
    THEN Err("BadDistanceValues")
    ELSE IF IntsFromStr(e.width[1]).err # "" \/ IntsFromStr(e.height[1]).err # ""
    THEN Err("BadDistanceValues")
    ELSE Ok([widths |-> IntsFromStr(e.width[1]).val,
             heights |-> IntsFromStr(e.height[1]).val])

\* input.rs: TextBoxInput::new_from
TextBoxInputNewFrom(markup, e) ==
    LET dims == LayoutDimensionsFromHashMap(e)
        compatible_markup == ToPangoCompatible(markup)
    IN  IF dims.err # ""
        THEN dims
        ELSE IF compatible_markup.err # ""
        THEN compatible_markup
        ELSE Ok([markup |-> compatible_markup.val, dimensions |-> dims.val])

\* Result::unwrap and Option::unwrap
Unwrap(r) == IF r.err # "" THEN Err("Panic") ELSE r

\* xml_support.rs: from_backgrounded_element_to_element_group; layout_output
\* is what LayoutBuilder::get_layout_output answers for the input
FromBackgroundedElementToElementGroup(e, layout_output) ==
    LET markup == Unwrap(GetMarkup(e))
        input == Unwrap(TextBoxInputNewFrom(markup.val, e))
        ps == XmlPaddingNew(e.padding[1])
    IN  IF markup.err # ""
        THEN markup
        ELSE IF input.err # ""
        THEN input
        ELSE IF e.padding = <<>>
        THEN Err("XMLRequiredAttributeMissing")
        ELSE IF e.x = <<>> \/ e.y = <<>>
        THEN Err("XMLRequiredAttributeMissing")
        ELSE IF ps.err # ""
        THEN ps
        ELSE IF layout_output # "Ok"
        THEN Err(layout_output)
        ELSE Ok([markup |-> input.val.markup, x |-> e.x[1] + ps.val.left,
                 y |-> e.y[1] + ps.val.top])

\* xml_fetcher.rs: TextBoxToRender::try_from(s)
TextBoxToRenderTryFrom(s) ==
    LET markup == IF s.markup = <<>>
                  THEN Err("Panic")
                  ELSE PangoCompatibleStringNew(s.markup[1])
    IN  IF markup.err # ""
        THEN markup
        ELSE Ok([markup |-> markup.val, x |-> 0, y |-> 0])

\* the markup of an element or of an attribute map
XmlMarkups ==
    {<<>>} \cup {<<m>> : m \in UNION {[1..n -> MarkupChars] : n \in 0..MaxSide}}

\* the value of a width or height attribute
XmlDistances ==
    {<<>>} \cup {<<[kind |-> "str", tokens |-> <<t>>, is_empty |-> FALSE]>> :
                    t \in {NOT_A_NUMBER, 1}}

XmlElements ==
    [kind : {"element"}, markup : XmlMarkups,
     width : XmlDistances, height : XmlDistances,
     padding : {<<>>} \cup {<<[kind |-> "padding", tokens |-> <<p>>]>> : p \in 0..MaxPad},
     x : {<<>>, <<0>>}, y : {<<>>, <<0>>}]

XmlAttrMaps == [kind : {"attrs"}, markup : XmlMarkups]

NoXmlCall == [group |-> <<>>, try_from |-> <<>>]

CallFromBackgroundedElementToElementGroup ==
    /\ fn_in.kind = "element"
    /\ fn_out.group = <<>>
    /\ \E layout_output \in {"Ok", "CouldNotFit"} :
           fn_out' = [fn_out EXCEPT !.group =
                         <<FromBackgroundedElementToElementGroup(fn_in, layout_output)>>]
    /\ UNCHANGED <<fn_in, mgr_vars, searchImpl, lib_vars, sg_vars>>

CallTextBoxToRenderTryFrom ==
    /\ fn_in.kind = "attrs"
    /\ fn_out.try_from = <<>>
    /\ fn_out' = [fn_out EXCEPT !.try_from = <<TextBoxToRenderTryFrom(fn_in)>>]
    /\ UNCHANGED <<fn_in, mgr_vars, searchImpl, lib_vars, sg_vars>>

InitXml ==
    /\ MgrIdle
    /\ LibIdle
    /\ SgIdle
    /\ searchImpl = "halving"
    /\ \/ /\ fn_in \in XmlElements \cup XmlAttrMaps
          /\ fn_out = NoXmlCall
       \/ /\ fn_in \in PaddingSources
          /\ fn_out = NoPaddingCall

NextXml ==
    \/ CallFromBackgroundedElementToElementGroup
    \/ CallTextBoxToRenderTryFrom
    \/ CallPaddingVisitStr

SpecXml == InitXml /\ [][NextXml]_vars

----------------------------------------------------------------------------
\* Pixels to scaled points and back: lib.rs generate_from, checks.rs
\* DistanceMeasure (whose as_scaled_pts svgwriter.rs hands to set_width and
\* set_height) and output.rs px_width / px_height.

\* the pixel values of the model: 0..MaxPx and the values about DISTANCE_MAX
MaxPx == 8

\* an f32 has 24 significant bits
F32_SIGNIFICAND == 16777216

RECURSIVE F32UnitFrom(_, _)
\* the spacing of the f32 values about n >= 0
F32UnitFrom(n, u) ==
    IF n \div u < F32_SIGNIFICAND THEN u ELSE F32UnitFrom(n, 2 * u)

\* "as f32" and the rounding of an f32 product, for a whole n >= 0 (or any n
\* in a fixed binary fraction): to the nearest f32, ties to even
F32(n) ==
    LET u == F32UnitFrom(n, 1)
        lo == (n \div u) * u
        r == n - lo
    IN  IF 2 * r < u
        THEN lo
        ELSE IF 2 * r > u
        THEN lo + u
        ELSE IF (lo \div u) % 2 = 0 THEN lo ELSE lo + u

\* lib.rs: "((x * pango::SCALE) as f32 * 0.75) as i32", for DISTANCE_MIN < x
\* <= DISTANCE_MAX: x * SCALE fits an i32 and is a multiple of 4, so that its
\* product with 0.75 is whole before it is rounded to an f32
PxToScaledPts(x) == F32(3 * (F32(x * SCALE) \div 4))

\* lib.rs: generate_from, the width and height set on the layout
GenerateFromBox(px_width, px_height) ==
    IF GenerateFrom(px_width, px_height, "Ok") # "Ok"
    THEN Err(GenerateFrom(px_width, px_height, "Ok"))
    ELSE Ok([width |-> PxToScaledPts(px_width), height |-> PxToScaledPts(px_height)])

\* checks.rs: DistanceMeasure::as_pts, in quarters of a point
AsPtsQuarters(value) == F32(3 * F32(value))

\* checks.rs: DistanceMeasure::as_scaled_pts, "self.as_pts() as i32 * SCALE";
\* for 0 <= value <= DISTANCE_MAX + 1 the product fits an i32
AsScaledPts(value) == (AsPtsQuarters(value) \div 4) * SCALE

\* output.rs: px_width and px_height, "(f64::from(scaled) / f64::from(SCALE)
\* / 0.75) as i32" for 0 <= scaled; the f64 quotient is within 2^-40 of
\* scaled / 768, which is whole or at least 1/768 away from a whole number
PxOfScaled(scaled) == scaled \div ((3 * SCALE) \div 4)

\* svgwriter.rs: LayoutSizingExt::width and height, "get_width() / SCALE"
\* taken for the distance in pixels
WriterPxOfScaled(scaled) == I32Div(scaled, SCALE)

BoxPxValues == (0..MaxPx) \cup ((DISTANCE_MAX - 1)..(DISTANCE_MAX + 1))

PxInputs == [kind : {"px"}, px_width : BoxPxValues, px_height : BoxPxValues]

NoScaleCall == [generate_from |-> <<>>, writer |-> <<>>]

\* lib.rs: generate_from(markup, px_width, px_height, ..), and the pixel
\* size output.rs reads back off the layout
CallGenerateFromBox ==
    /\ fn_in.kind = "px"
    /\ fn_out.generate_from = <<>>
    /\ LET r == GenerateFromBox(fn_in.px_width, fn_in.px_height)
       IN  fn_out' = [fn_out EXCEPT !.generate_from =
                         <<IF r.err # ""
                           THEN r
                           ELSE Ok([width |-> r.val.width,
                                    height |-> r.val.height,
                                    px_width |-> PxOfScaled(r.val.width),
                                    px_height |-> PxOfScaled(r.val.height)])>>]
    /\ UNCHANGED <<fn_in, mgr_vars, searchImpl, lib_vars, sg_vars>>

\* svgwriter.rs: layout.set_width(width.as_scaled_pts()) and
\* set_height(height.as_scaled_pts()), and the pixel size read back
CallWriterSetBox ==
    /\ fn_in.kind = "px"
    /\ fn_out.writer = <<>>
    /\ LET w == AsScaledPts(fn_in.px_width)
           h == AsScaledPts(fn_in.px_height)
       IN  fn_out' = [fn_out EXCEPT !.writer =
                         <<[width |-> w, height |-> h,
                            px_width |-> WriterPxOfScaled(w),
                            px_height |-> WriterPxOfScaled(h)]>>]
    /\ UNCHANGED <<fn_in, mgr_vars, searchImpl, lib_vars, sg_vars>>

InitScale ==
    /\ MgrIdle
    /\ LibIdle
    /\ SgIdle
    /\ searchImpl = "halving"
    /\ fn_in \in PxInputs
    /\ fn_out = NoScaleCall

NextScale ==
    \/ CallGenerateFromBox
    \/ CallWriterSetBox

SpecScale == InitScale /\ [][NextScale]_vars

----------------------------------------------------------------------------
\* Vocabulary of the properties

\* the fit function of the box w x h is monotone in the font size
MonotoneAt(w, h) ==
    \A s, t \in Range(font_sizes) :
        (s < t /\ fit[<<w, h, t>>]) => fit[<<w, h, s>>]

MonotoneEverywhere ==
    \A d \in Range(dimensions) : MonotoneAt(d[1], d[2])

\* the candidate sizes that fit the box w x h
FittingSizes(w, h) == {s \in Range(font_sizes) : fit[<<w, h, s>>]}

RECURSIVE ScanFrom(_, _, _, _)
\* a linear scan of the candidates for the largest one that fits; 0 when none does
ScanFrom(i, best, w, h) ==
    IF i > Len(font_sizes)
    THEN best
    ELSE ScanFrom(i + 1,
                  IF fit[<<w, h, font_sizes[i]>>] THEN font_sizes[i] ELSE best,
                  w, h)

LinearScan(w, h) == ScanFrom(1, 0, w, h)

TriedPairs == [i \in 1..Len(tried) |-> <<tried[i].width, tried[i].height>>]

IsPrefix(s, t) ==
    /\ Len(s) <= Len(t)
    /\ \A i \in 1..Len(s) : s[i] = t[i]

WidthIsFlexible == Len(src_widths) > 1
HeightIsFlexible == Len(src_heights) > 1
OneFlexible == WidthIsFlexible # HeightIsFlexible
FlexFlex == WidthIsFlexible /\ HeightIsFlexible

\* the candidates of the one flexible dimension, as the source yields them
FlexList == IF WidthIsFlexible THEN src_widths ELSE src_heights

\* the values of the flexible dimension that were tried, in the order tried
FlexTried ==
    [i \in 1..Len(tried) |->
        IF WidthIsFlexible THEN tried[i].width ELSE tried[i].height]

\* the box of flexible value c (the other dimension has its single value)
FlexBox(c) ==
    IF WidthIsFlexible THEN <<c, src_heights[1]>> ELSE <<src_widths[1], c>>

\* some candidate font size fits at flexible value c
FitExistsAt(c) == FittingSizes(FlexBox(c)[1], FlexBox(c)[2]) # {}

----------------------------------------------------------------------------
\* C1: on an ascending list of distinct candidate sizes and a fit function
\* monotone in the size, grow_to_maximum_font_size selects exactly the size a
\* linear scan for the largest fitting candidate selects (and reports
\* CouldNotFit exactly when the scan finds none).
C1_BinarySearchIsLinearScan ==
    \A i \in DOMAIN tried :
        MonotoneAt(tried[i].width, tried[i].height) =>
            LET scan == LinearScan(tried[i].width, tried[i].height)
            IN  IF scan = 0
                THEN tried[i].result = "CouldNotFit"
                ELSE tried[i].result = "Ok" /\ tried[i].font_size = scan

\* a monotone search over at least four sizes that selects an inner candidate
C1_Witness ==
    \E i \in DOMAIN tried :
        /\ MonotoneAt(tried[i].width, tried[i].height)
        /\ IsAscending(font_sizes)
        /\ Len(font_sizes) >= 4
        /\ tried[i].result = "Ok"
        /\ tried[i].font_size > font_sizes[1]
        /\ tried[i].font_size < font_sizes[Len(font_sizes)]

\* C5: for a fixed box and a monotone fit function the search reports
\* CouldNotFit if and only if the smallest candidate size does not fit; when
\* the smallest candidate fits it succeeds (never CouldNotFit, never
\* UnexpectedNone).
C5_CouldNotFitIffSmallestFails ==
    \A i \in DOMAIN tried :
        MonotoneAt(tried[i].width, tried[i].height) =>
            LET smallest == fit[<<tried[i].width, tried[i].height, font_sizes[1]>>]
            IN  /\ (tried[i].result = "CouldNotFit") <=> ~smallest
                /\ smallest => tried[i].result = "Ok"

\* a monotone search in which only the smallest of several sizes fits
C5_Witness ==
    \E i \in DOMAIN tried :
        /\ MonotoneAt(tried[i].width, tried[i].height)
        /\ Len(font_sizes) >= 3
        /\ FittingSizes(tried[i].width, tried[i].height) = {font_sizes[1]}
        /\ tried[i].result = "Ok"

\* C4: get_best_fit returns CouldNotFit only after every dimension candidate
\* has been tried and the search failed at each of them (for a monotone fit
\* function: no candidate size fits at any of them); the enumeration stops at,
\* and returns, the first dimension candidate at which the search succeeds.
C4_CouldNotFitOnlyAfterAll ==
    /\ IsPrefix(TriedPairs, dimensions)
    /\ \A i \in DOMAIN tried :
           i < Len(tried) => tried[i].result = "CouldNotFit"
    /\ (pc = "done" /\ result = "CouldNotFit") =>
           /\ Len(tried) = Len(dimensions)
           /\ \A i \in DOMAIN tried : tried[i].result = "CouldNotFit"
           /\ MonotoneEverywhere =>
                  \A d \in Range(dimensions) : FittingSizes(d[1], d[2]) = {}
    /\ (pc = "done" /\ result = "Ok") =>
           /\ tried[Len(tried)].result = "Ok"
           /\ <<layout.width, layout.height>> = dimensions[Len(tried)]
    /\ (pc = "best_fit" /\ dimIdx <= Len(dimensions)) => result = "pending"

\* every one of four dimension candidates was tried before CouldNotFit came back
C4_Witness ==
    /\ pc = "done"
    /\ result = "CouldNotFit"
    /\ Len(dimensions) = 4
    /\ Len(tried) = 4

\* C6: after a successful search the layout's font size is the selected size
\* (the candidate just below the insertion index), whatever size was probed
\* last; the layout get_best_fit returns carries the accepted width, the
\* accepted height and the selected font size.
C6_LayoutCarriesSelectedSize ==
    /\ \A i \in DOMAIN tried :
           tried[i].result = "Ok" =>
               LET cmp == [k \in 1..Len(font_sizes) |->
                              ChangeSizeAndCheckFits(fit, tried[i].width,
                                                     tried[i].height, font_sizes[k])]
               IN  tried[i].font_size = font_sizes[BinarySearchBy(cmp, searchImpl).index]
    /\ (pc = "done" /\ result = "Ok") =>
           /\ layout.width = tried[Len(tried)].width
           /\ layout.height = tried[Len(tried)].height
           /\ layout.font_size = tried[Len(tried)].font_size
           /\ <<layout.width, layout.height>> = dimensions[dimIdx]
           /\ fit[<<layout.width, layout.height, layout.font_size>>]

\* a successful search whose last probe was not the selected size
C6_Witness ==
    /\ pc = "done"
    /\ result = "Ok"
    /\ LET t == tried[Len(tried)]
       IN  /\ Len(t.probes) > 0
           /\ t.probes[Len(t.probes)] # layout.font_size

\* the index of the first candidate of the flexible dimension, in source
\* order, that satisfies P; 0 when there is none
FirstFlexIndex(P(_)) ==
    IF \E i \in DOMAIN FlexList : P(FlexList[i])
    THEN Min({i \in DOMAIN FlexList : P(FlexList[i])})
    ELSE 0

C3_MinHeightThenMaxWidthOnly ==
    FlexFlex =>
        IsPrefix(TriedPairs,
                 PossibleDimensions_MinHeightThenMaxWidth(src_widths, src_heights))

\* C3 amended: with both dimensions flexible the resolver tries the pairs of
\* the full product widths x heights width-major in source order (for each
\* width every height before the next width); the first pair at which the
\* search succeeds wins and CouldNotFit comes back only after all of them.
C3_WidthMajorProduct ==
    FlexFlex =>
        LET order == WidthMajorFrom(1, src_widths, src_heights)
        IN  /\ IsPrefix(TriedPairs, order)
            /\ \A i \in 1..(Len(tried) - 1) :
                   /\ tried[i].result = "CouldNotFit"
                   /\ MonotoneEverywhere => FittingSizes(order[i][1], order[i][2]) = {}
            /\ (pc = "done" /\ result = "Ok") =>
                   /\ tried[Len(tried)].result = "Ok"
                   /\ <<layout.width, layout.height>> = order[Len(tried)]
                   /\ fit[<<layout.width, layout.height, layout.font_size>>]
            /\ (pc = "done" /\ result = "CouldNotFit") => TriedPairs = order

\* the accepted pair has neither the maximum width nor the minimum height
C3_Witness ==
    /\ FlexFlex
    /\ pc = "done"
    /\ result = "Ok"
    /\ layout.width # Max(Range(src_widths))
    /\ layout.height # Min(Range(src_heights))

\* the three signals of the fit predicate: not ellipsized, the ink extents
\* within the box, and the character at the box's bottom right corner the
\* last one of the text
NotEllipsized(s) == ~s.ellipsized

BoundsRespected(s) ==
    /\ s.ink.x >= 0
    /\ s.ink.y >= 0
    /\ s.ink.x + s.ink.width <= s.width
    /\ s.ink.y + s.ink.height <= s.height

NothingDropped(s) == s.last_char_index = s.text_len - 1

\* C7: fits() is true exactly when all three signals hold (not ellipsized,
\* ink extents within the box, last character index that of the full text);
\* stated for LayoutExtension::fits of layout.rs and LayoutSizing::fits of
\* lib.rs.
C7_FitsIsThreeSignals ==
    LET three == NotEllipsized(sg) /\ BoundsRespected(sg) /\ NothingDropped(sg)
    IN  /\ sg_verdict.extension # <<>> => (sg_verdict.extension[1] <=> three)
        /\ sg_verdict.sizing # <<>> => (sg_verdict.sizing[1] <=> three)

\* the size the static branch is asked for: the one of the font description,
\* 10pt when it has none
RequestedSize == IF lib_in.font_size <= 0 THEN 10 ELSE lib_in.font_size

\* C8: get_layout with grow = false never changes the font size in response
\* to a non-fit: when the layout does not fit at the requested size (the 10pt
\* default when none was set) the result is StaticFontNoFit, never
\* MinFontSize and never a layout at another size; when it fits the returned
\* layout has exactly that size.
C8_StaticNeverChangesSize ==
    (lib_pc = "done" /\ Generates(lib_in) /\ ~lib_in.grow) =>
        /\ lib_result = (IF lib_sig[RequestedSize].fits
                         THEN "Ok" ELSE "StaticFontNoFit")
        /\ lib_layout.font_size = RequestedSize
        /\ lib_probes = <<>>

\* a static call that ends StaticFontNoFit although a smaller size would fit
C8_Witness ==
    /\ lib_pc = "done"
    /\ ~lib_in.grow
    /\ lib_result = "StaticFontNoFit"
    /\ lib_in.font_size > 1
    /\ \E n \in 1..(lib_in.font_size - 1) : lib_sig[n].fits

\* fits() is monotone in the font size and the last visible character is the
\* same at every size
SizingMonotone ==
    /\ \A a, b \in LibSizes : (a < b /\ lib_sig[b].fits) => lib_sig[a].fits
    /\ \A n \in LibSizes :
           lib_sig[n].last_char_index = lib_sig[lib_in.font_size].last_char_index

\* C9: whenever get_layout with grow = true returns a size, the layout fits
\* at that size and does not fit at the next candidate, one point larger
\* (unless the returned size is the largest candidate); stated for oracles
\* monotone in the size.
C9_ReturnedIsLargestFitting ==
    (lib_pc = "done" /\ lib_in.grow /\ lib_result = "Ok" /\ SizingMonotone) =>
        /\ lib_sig[lib_layout.font_size].fits
        /\ (lib_layout.font_size + 1 < MaxFontSize) =>
               ~lib_sig[lib_layout.font_size + 1].fits

\* C10: a size is accepted by the static check exactly when a probe of the
\* grow search judges the layout at that size fitting.
C10_ProbeIsStaticCheck ==
    \A i \in DOMAIN lib_probes :
        lib_probes[i].size > 0 =>
            ((lib_probes[i].cmp = "Less")
                <=> (StaticCheck(lib_sig, lib_probes[i].size).result = "Ok"))

\* the candidates a parsed FontSizing or UnitContainer stands for
CandidatesOf(r, ToSeq(_)) ==
    IF r.err # "" THEN r ELSE Ok(Range(ToSeq(r.val).val))

\* C11: a two-token string "a b" parses to every integer of a..b when b > a
\* and to exactly the set {a, b} when b <= a; stated for ints_from_str of
\* input.rs, for FontSizing's FromStr of fontsizing.rs and for
\* UnitContainerVisitor::visit_str of textbox.rs.
C11_TwoTokenRangeOrSet ==
    (/\ fn_in.kind = "str"
     /\ Len(fn_in.tokens) = 2
     /\ fn_in.tokens[1] >= 1
     /\ fn_in.tokens[2] >= 1) =>
        LET a == fn_in.tokens[1]
            b == fn_in.tokens[2]
            expected == Ok(IF b > a THEN a..b ELSE {a, b})
        IN  /\ fn_out.ints_from_str # <<>> =>
                   fn_out.ints_from_str[1] = expected
            /\ fn_out.fontsizing_from_str # <<>> =>
                   CandidatesOf(fn_out.fontsizing_from_str[1], FontSizingToVec)
                       = expected
            /\ fn_out.unit_visit_str # <<>> =>
                   CandidatesOf(fn_out.unit_visit_str[1], UnitContainerIter)
                       = expected

\* C12: for every FontSizing f of any variant, rebuilding a FontSizing from
\* its own candidate list yields the same candidates:
\* from_vec(to_vec(f)).to_vec() = to_vec(f), wherever to_vec(f) is defined.
C12_RoundTrip ==
    (/\ fn_in.kind = "fontsizing"
     /\ fn_out.round_trip # <<>>
     /\ fn_out.round_trip[1].v.err = "") =>
        fn_out.round_trip[1].again = fn_out.round_trip[1].v

\* C12 amended: the candidates of from_vec(to_vec(f)) are those of f exactly
\* when to_vec(f) has one size, two consecutive sizes or at least three
\* sizes; a list of two sizes that are not consecutive comes back as the
\* whole range between them, and an empty list (a Range with min > max, an
\* empty Flex) as the default range 10..=30.  to_vec panics for a Range whose
\* step is 0, and for nothing else.
C12_RoundTripButTwoOrNone ==
    (fn_in.kind = "fontsizing" /\ fn_out.round_trip # <<>>) =>
        LET r == fn_out.round_trip[1]
            v == r.v.val
        IN  /\ (r.v.err # "") <=> (fn_in.f.kind = "Range" /\ fn_in.f.step = <<0>>)
            /\ r.v.err = "" =>
                   /\ (r.again = r.v)
                          <=> ~(Len(v) = 0 \/ (Len(v) = 2 /\ v[2] # v[1] + 1))
                   /\ Len(v) = 0 => r.again = Ok([i \in 1..21 |-> i + 9])
                   /\ Len(v) = 2 =>
                          r.again = Ok([i \in 1..(v[2] - v[1] + 1) |-> v[1] + i - 1])

\* a range with a step that has two sizes: rebuilt, it has every size between
C12_Witness ==
    /\ fn_in.kind = "fontsizing"
    /\ fn_in.f.kind = "Range"
    /\ fn_in.f.step = <<2>>
    /\ fn_out.round_trip # <<>>
    /\ Len(fn_out.round_trip[1].v.val) = 2
    /\ Len(fn_out.round_trip[1].again.val) = 3

\* C13: a specification built from an empty set of values or with min > max
\* is an error of the operation that builds it: a string without a number is
\* refused by every parser, and whatever a parser, a deserialiser, from_range
\* or a setter returns has min <= max and at least one value
C13_EmptyOrInvertedRefused ==
    /\ fn_out.ints_from_str # <<>> =>
           \/ fn_out.ints_from_str[1].err # ""
           \/ fn_out.ints_from_str[1].val # {}
    /\ fn_out.fontsizing_from_str # <<>> /\ fn_in.tokens = <<>> =>
           fn_out.fontsizing_from_str[1].err # ""
    /\ fn_out.unit_visit_str # <<>> =>
           \/ fn_out.unit_visit_str[1].err # ""
           \/ fn_out.unit_visit_str[1].val.set # {}
    /\ fn_out.unit_visit_map # <<>> =>
           \/ fn_out.unit_visit_map[1].err # ""
           \/ fn_out.unit_visit_map[1].val.min <= fn_out.unit_visit_map[1].val.max
    /\ fn_out.from_range # <<>> =>
           \/ fn_out.from_range[1].err # ""
           \/ fn_out.from_range[1].val.v # <<>>
    /\ fn_out.set_min_size # <<>> =>
           fn_out.set_min_size[1].min <= fn_out.set_min_size[1].max
    /\ fn_out.set_max_size # <<>> =>
           fn_out.set_max_size[1].min <= fn_out.set_max_size[1].max

\* the sequence of a range: min, min + step, ... up to max,
\* with step 1 when there is none
SteppedUpTo(min, max, step) ==
    LET st == IF step = <<>> THEN 1 ELSE step[1]
    IN  SortedSeq({n \in min..max : \E k \in 0..(max - min) : n = min + (k * st)})

\* a result is a sequence: strictly ascending, of positive integers
IsCandidateSequence(r) ==
    /\ r.err = ""
    /\ IsAscending(r.val)
    /\ \A i \in DOMAIN r.val : r.val[i] > 0

\* C14: the candidates of every specification are defined and are a strictly
\* ascending sequence of positive integers: [v] for Static(v), the elements
\* in ascending order for a set, and min, min + step, ... up to max for a range
C14_CandidatesAscendingPositive ==
    /\ fn_out.round_trip # <<>> =>
           /\ IsCandidateSequence(fn_out.round_trip[1].v)
           /\ fn_in.f.kind = "Static" => fn_out.round_trip[1].v.val = <<fn_in.f.v>>
           /\ fn_in.f.kind = "Flex" =>
                  fn_out.round_trip[1].v.val = SortedSeq(fn_in.f.set)
           /\ fn_in.f.kind = "Range" =>
                  fn_out.round_trip[1].v.val =
                      SteppedUpTo(fn_in.f.min, fn_in.f.max, fn_in.f.step)
    /\ fn_out.unit_iter # <<>> =>
           /\ IsCandidateSequence(fn_out.unit_iter[1])
           /\ fn_in.u.kind = "AsSet" => fn_out.unit_iter[1].val = SortedSeq(fn_in.u.set)
           /\ fn_in.u.kind = "AsRange" =>
                  fn_out.unit_iter[1].val =
                      SteppedUpTo(fn_in.u.min, fn_in.u.max, fn_in.u.step)

\* the candidates of a container in ascending order, each scaled and less
\* the padding pad
ContentCandidates(container, pad) ==
    [i \in DOMAIN SortedSeq(container.set) |->
        (SortedSeq(container.set)[i] - pad) * SCALE]

\* C15: the content-box candidates handed to the resolver are the declared
\* widths each less left + right and the declared heights each less
\* top + bottom, in the same order
C15_ContentCandidatesFromOwnSpec ==
    /\ fn_out.manager # <<>> =>
           /\ fn_out.manager[1].widths =
                  Ok(ContentCandidates(fn_in.width,
                                       fn_in.padding.left + fn_in.padding.right))
           /\ fn_out.manager[1].heights =
                  Ok(ContentCandidates(fn_in.height,
                                       fn_in.padding.top + fn_in.padding.bottom))
    /\ fn_out.group # <<>> =>
           /\ fn_out.group[1].new_dimensions.widths =
                  {w - (fn_in.padding.left + fn_in.padding.right) :
                      w \in fn_in.width.set}
           /\ fn_out.group[1].new_dimensions.heights =
                  {h - (fn_in.padding.top + fn_in.padding.bottom) :
                      h \in fn_in.height.set}

\* C16: for every resolved padded textbox the outer width is the chosen
\* content width plus left + right, the outer height is the chosen content
\* height plus top + bottom, and the content is placed at (left, top) of the
\* outer box
C16_OuterIsContentPlusPadding ==
    /\ (fn_out.rendered # <<>> /\ fn_out.rendered[1].err = "") =>
           LET r == fn_out.rendered[1].val
           IN  /\ r.width * SCALE =
                      r.layout_width
                          + ((fn_in.padding.left + fn_in.padding.right) * SCALE)
               /\ r.height * SCALE =
                      r.layout_height
                          + ((fn_in.padding.top + fn_in.padding.bottom) * SCALE)
               /\ r.x = fn_in.padding.left
               /\ r.y = fn_in.padding.top
    /\ fn_out.group # <<>> =>
           LET g == fn_out.group[1]
           IN  /\ g.out.rect.width =
                      g.textbox_output.width
                          + fn_in.padding.left + fn_in.padding.right
               /\ g.out.rect.height =
                      g.textbox_output.height
                          + fn_in.padding.top + fn_in.padding.bottom
               /\ g.out.image.x - g.out.rect.x = fn_in.padding.left
               /\ g.out.image.y - g.out.rect.y = fn_in.padding.top

\* subtracting the padding leaves a width or a height candidate <= 0
SomeContentNotPositive ==
    \/ \E w \in fn_in.width.set :
           w - (fn_in.padding.left + fn_in.padding.right) <= 0
    \/ \E h \in fn_in.height.set :
           h - (fn_in.padding.top + fn_in.padding.bottom) <= 0

\* C17: a textbox whose padding leaves a content width or height candidate
\* <= 0 is rejected with an error, and no layout is resolved with a content
\* width or height <= 0
C17_NonPositiveContentRejected ==
    fn_out.rendered # <<>> =>
        /\ SomeContentNotPositive => fn_out.rendered[1].err # ""
        /\ fn_out.rendered[1].err = "" =>
               /\ fn_out.rendered[1].val.layout_width > 0
               /\ fn_out.rendered[1].val.layout_height > 0

\* the padding the CSS shorthand gives for one to four values
CssShorthand(v) ==
    IF Len(v) = 1 THEN PaddingSpecification(v[1], v[1], v[1], v[1])
    ELSE IF Len(v) = 2 THEN PaddingSpecification(v[1], v[2], v[1], v[2])
    ELSE IF Len(v) = 3 THEN PaddingSpecification(v[1], v[2], v[3], v[2])
    ELSE PaddingSpecification(v[1], v[2], v[3], v[4])

\* r is what the CSS shorthand rules give for the numbers v: the padding for
\* one to four numbers, an error for none or more than four
IsCssShorthandOf(r, v) ==
    IF Len(v) \in 1..4
    THEN r = Ok(CssShorthand(v))
    ELSE r.err # ""

\* C18: a padding is read with the CSS shorthand rules: one value sets the
\* four sides, two give top = bottom and right = left, three give top,
\* right = left, bottom, four give top, right, bottom, left; no value or
\* more than four values is an error
C18_PaddingIsCssShorthand ==
    (fn_in.kind = "padding" /\ \A i \in DOMAIN fn_in.tokens : fn_in.tokens[i] >= 0) =>
        /\ fn_out.xml_new # <<>> => IsCssShorthandOf(fn_out.xml_new[1], fn_in.tokens)
        /\ fn_out.padded_from_str # <<>> =>
               IsCssShorthandOf(fn_out.padded_from_str[1], fn_in.tokens)
        /\ fn_out.visit_str # <<>> =>
               IsCssShorthandOf(fn_out.visit_str[1], fn_in.tokens)
        /\ fn_out.visit_seq # <<>> =>
               IsCssShorthandOf(fn_out.visit_seq[1], fn_in.tokens)

\* the positions of the rectangles in an image
RectsOf(src) == {i \in DOMAIN src : src[i].tag = "rect"}

\* the position of the end of the defs block
DefsEndOf(src) == CHOOSE i \in DOMAIN src : src[i] = Tag("/defs")

\* the rectangle at position i of the image out is at (0, 0), has the size of
\* the image and the attributes of the caller that are not x, y, width or
\* height, and stands in a group right after the defs block, the image being
\* otherwise unchanged
IsBackgroundRect(out, i) ==
    LET a == out.src[i].attrs
        d == DefsEndOf(fn_in.image.src)
    IN  /\ a["x"] = "0"
        /\ a["y"] = "0"
        /\ a["width"] = ToString(out.width)
        /\ a["height"] = ToString(out.height)
        /\ \A k \in DOMAIN fn_in.padding_attrs \ {"x", "y", "width", "height"} :
               k \in DOMAIN a /\ a[k] = fn_in.padding_attrs[k]
        /\ i = d + 2
        /\ out.src = SubSeq(fn_in.image.src, 1, d)
                         \o <<Tag("g"), out.src[i], Tag("/g")>>
                         \o SubSeq(fn_in.image.src, d + 1, Len(fn_in.image.src))
        /\ out.width = fn_in.image.width
        /\ out.height = fn_in.image.height

\* C19: the background rectangle has x = 0, y = 0, the outer width and
\* height and every decorative attribute of the caller; x, y, width and
\* height of the caller never replace the computed ones; the rectangle is
\* inserted right after the defs block, before the text
C19_BackgroundRect ==
    /\ fn_out.inserted # <<>> =>
           /\ RectsOf(fn_out.inserted[1].src) # {}
           /\ \A i \in RectsOf(fn_out.inserted[1].src) :
                  IsBackgroundRect(fn_out.inserted[1], i)
    /\ fn_out.svg_image # <<>> =>
           \A i \in RectsOf(fn_out.svg_image[1].src) :
               IsBackgroundRect(fn_out.svg_image[1], i)

\* a rectangle was put into the image of a textbox whose caller gave a fill
\* and a width and an x of their own
C19_Witness ==
    /\ fn_out.svg_image # <<>>
    /\ RectsOf(fn_out.svg_image[1].src) # {}
    /\ {"fill", "width", "x"} \subseteq DOMAIN fn_in.padding_attrs
    /\ fn_in.padding_attrs["width"] # ToString(fn_in.image.width)

RECURSIVE Flatten(_)
\* the concatenation of a sequence of strings
Flatten(ss) ==
    IF ss = <<>>
    THEN <<>>
    ELSE IF Len(ss) = 1
    THEN ss[1]
    ELSE Flatten(SubSeq(ss, 1, Len(ss) \div 2))
             \o Flatten(SubSeq(ss, (Len(ss) \div 2) + 1, Len(ss)))

\* m with every "&" that stands right before whitespace replaced by "&amp;"
AmpersandsEscaped(m) ==
    Flatten([i \in DOMAIN m |->
                IF m[i] = "&" /\ i < Len(m) /\ IsWhitespace(m[i + 1])
                THEN AMP
                ELSE <<m[i]>>])

\* r is what a sanitizer may return for the markup m: when it returns a
\* string, the string is the trimmed m with its isolated ampersands escaped,
\* and sanitizing that string returns it unchanged
IsSanitized(r, m) ==
    r.first.err = "" =>
        /\ r.first.val = AmpersandsEscaped(Trim(m))
        /\ r.again = Ok(r.first.val)

\* C20: the sanitized markup is the trimmed input in which every "&" right
\* before whitespace is replaced by "&amp;", the whitespace and every other
\* character kept; sanitizing sanitized markup returns it unchanged
C20_SanitizedIsTrimmedEscaped ==
    /\ fn_out.check_markup # <<>> => IsSanitized(fn_out.check_markup[1], fn_in.m)
    /\ fn_out.markup_new # <<>> => IsSanitized(fn_out.markup_new[1], fn_in.m)
    /\ fn_out.pcs_new # <<>> => IsSanitized(fn_out.pcs_new[1], fn_in.m)

\* what makes a markup unacceptable: its trimmed length, blankness, a NUL
TooLong(m) == Len(Trim(m)) > MAX_MARKUP_LEN
Blank(m) == Trim(m) = <<>>
HasNul(m) == NUL \in Range(m)

\* C21: markup whose trimmed length exceeds 1000, markup that is empty or
\* only whitespace and markup with a NUL character is rejected by the
\* sanitizers, and check_markup reports MarkupTooLong, MarkupWhitespace and
\* MarkupNullChar, the first of them that applies
C21_UnacceptableMarkupRejected ==
    fn_in.kind = "markup" =>
        /\ (TooLong(fn_in.m) \/ Blank(fn_in.m) \/ HasNul(fn_in.m)) =>
               /\ fn_out.check_markup # <<>> => fn_out.check_markup[1].first.err # ""
               /\ fn_out.pcs_new # <<>> => fn_out.pcs_new[1].first.err # ""
        /\ fn_out.check_markup # <<>> =>
               LET e == fn_out.check_markup[1].first.err
               IN  /\ TooLong(fn_in.m) => e = "MarkupTooLong"
                   /\ (~TooLong(fn_in.m) /\ Blank(fn_in.m)) => e = "MarkupWhitespace"
                   /\ (~TooLong(fn_in.m) /\ ~Blank(fn_in.m) /\ HasNul(fn_in.m)) =>
                          e = "MarkupNullChar"

----------------------------------------------------------------------------
\* C22: every resolution terminates, whatever the fit function: the
\* maximising search of svgwriter.rs eventually returns a font size, also
\* when the text fits at no candidate size, the smallest included.
C22_ResolutionTerminates == <>(fn_in.kind = "writer" /\ fn_out.pc = "done")

----------------------------------------------------------------------------
RECURSIVE CeilLog2From(_, _, _)
CeilLog2From(n, k, pow) == IF pow >= n THEN k ELSE CeilLog2From(n, k + 1, 2 * pow)

\* the least k with 2^k >= n
CeilLog2(n) == CeilLog2From(n, 0, 1)

\* the fit probes of one candidate are within the bound for n candidate sizes
WithinLogBound(probes, n) == Len(probes) <= CeilLog2(n) + 1

\* layout.rs: every dimension candidate tried took at most ceil(log2 n) + 1 probes
LayoutProbesLogarithmic ==
    \A i \in 1..Len(tried) : WithinLogBound(tried[i].probes, Len(font_sizes))

\* svgwriter.rs: the probes of the search and of the loop after it
WriterProbes == fn_out.search_probes \o fn_out.loop_probes

\* C23: for n >= 1 candidate font sizes the search makes at most
\* ceil(log2 n) + 1 fit probes at one dimension candidate, in layout.rs and
\* in svgwriter.rs alike, and never probes the sizes one by one.
C23_ProbesLogarithmic ==
    /\ LayoutProbesLogarithmic
    /\ fn_in # <<>> =>
           (fn_in.kind = "writer" => WithinLogBound(WriterProbes, Len(FontSizeRange)))

----------------------------------------------------------------------------
\* C24: a fallible operation returns normally, with Ok or with an error
\* value, and never panics: the conversion of a backgrounded textbox element,
\* TextBoxToRender::try_from of an attribute map, and the reading of a
\* padding string.
C24_NoPanic ==
    /\ (fn_in.kind = "element" /\ fn_out.group # <<>>) =>
           fn_out.group[1].err # "Panic"
    /\ (fn_in.kind = "attrs" /\ fn_out.try_from # <<>>) =>
           fn_out.try_from[1].err # "Panic"
    /\ (fn_in.kind = "padding" /\ fn_out.visit_str # <<>>) =>
           fn_out.visit_str[1].err # "Panic"

----------------------------------------------------------------------------
\* px x 0.75 x SCALE
ExactScaled(px) == px * ((3 * SCALE) \div 4)

\* a box of the exact scaled size, which converts back to the pixel size
ExactBox(b) ==
    /\ b.width = ExactScaled(fn_in.px_width)
    /\ b.height = ExactScaled(fn_in.px_height)
    /\ b.px_width = fn_in.px_width
    /\ b.px_height = fn_in.px_height

\* the pixel sizes lib.rs accepts
AcceptedPx(px) == DISTANCE_MIN < px /\ px <= DISTANCE_MAX

\* C25: for every accepted pixel dimension px the box size handed to the
\* oracle is exactly px x 0.75 x SCALE, not truncated to whole points and
\* without overflow, and converting it back to pixels returns px: in lib.rs
\* and in svgwriter.rs.
C25_ScaledExactly ==
    fn_in.kind = "px" =>
        /\ (fn_out.generate_from # <<>> /\ fn_out.generate_from[1].err = "") =>
               ExactBox(fn_out.generate_from[1].val)
        /\ (fn_out.writer # <<>> /\ AcceptedPx(fn_in.px_width)
                /\ AcceptedPx(fn_in.px_height)) =>
               ExactBox(fn_out.writer[1])

\* the part of lib.rs and output.rs
LibScaledExactly ==
    (fn_out.generate_from # <<>> /\ fn_out.generate_from[1].err = "") =>
        ExactBox(fn_out.generate_from[1].val)

----------------------------------------------------------------------------
\* what get_layout with grow = true would answer, were the size of the font
\* description f and all else the same
GrowOutcomeFrom(f) ==
    LET g == SizingGrowToMaximumFontSize(lib_sig, f, searchImpl)
    IN  [result |-> g.result,
         font_size |-> IF g.result = "Ok" THEN g.font_size ELSE 0]

\* C26: with grow = true the size of the supplied font description is
\* meaningless: a call to get_layout that differs only in that size gives
\* the same outcome, the same chosen font size or the same error.
C26_InitialSizeMeaningless ==
    (lib_pc = "done" /\ lib_in.grow /\ Generates(lib_in)) =>
        \A f \in LibSizes :
            GrowOutcomeFrom(f) =
                [result |-> lib_result,
                 font_size |-> IF lib_result = "Ok" THEN lib_layout.font_size ELSE 0]

----------------------------------------------------------------------------
\* what the source lacks, in the order font sizes, heights, widths
FirstLack ==
    IF src_font_sizes = <<>>
    THEN "NoValidFontSizes"
    ELSE IF src_heights = <<>>
    THEN "NoValidHeights"
    ELSE IF src_widths = <<>>
    THEN "NoValidWidths"
    ELSE "none"

SourceErrors == {"NoValidFontSizes", "NoValidHeights", "NoValidWidths"}

\* C27: LayoutManager::new fails with NoValidFontSizes if the source offers
\* no font size, else with NoValidHeights if it offers no height, else with
\* NoValidWidths if it offers no width; otherwise it succeeds, with the font
\* sizes ascending and without duplicates and with every combination of an
\* offered width and an offered height as dimension candidates.
C27_NewChecksSourceInOrder ==
    pc # "new" =>
        IF FirstLack # "none"
        THEN /\ pc = "done"
             /\ result = FirstLack
             /\ tried = <<>>
        ELSE /\ result \notin SourceErrors
             /\ IsAscending(font_sizes)
             /\ Range(font_sizes) = Range(src_font_sizes)
             /\ Range(dimensions) = Range(src_widths) \X Range(src_heights)
             /\ Len(dimensions) = Len(src_widths) * Len(src_heights)

\* a source that offers font sizes but neither heights nor widths was refused
\* for its heights
C27_Witness ==
    /\ pc = "done"
    /\ src_font_sizes # <<>>
    /\ src_heights = <<>>
    /\ src_widths = <<>>
    /\ result = "NoValidHeights"

\* a source with font sizes out of order or repeated was accepted
C27_UnsortedAccepted ==
    /\ pc = "best_fit"
    /\ font_sizes # src_font_sizes
    /\ Len(dimensions) > 1

----------------------------------------------------------------------------
\* the search at the i-th pair tried succeeded
SearchSucceeded(i) == tried[i].result = "Ok"

\* C28: whenever grow_to_maximum_font_size succeeds, the size it selects
\* is one of the sizes it probed, and the fit function holds of it; whether
\* the fit function is monotone or not.
C28_SelectedWasProbedAndFits ==
    \A i \in 1..Len(tried) :
        SearchSucceeded(i) =>
            /\ tried[i].font_size \in Range(tried[i].probes)
            /\ fit[<<tried[i].width, tried[i].height, tried[i].font_size>>]

\* a search succeeded at a box whose fit function is not monotone, with a
\* size that is not the largest that fits
C28_Witness ==
    \E i \in 1..Len(tried) :
        /\ SearchSucceeded(i)
        /\ ~MonotoneAt(tried[i].width, tried[i].height)
        /\ tried[i].font_size < LinearScan(tried[i].width, tried[i].height)

----------------------------------------------------------------------------
\* the places in a list of pairs where some candidate font size fits
FittingPairs(order) ==
    {i \in DOMAIN order : FittingSizes(order[i][1], order[i][2]) # {}}

\* the search at the i-th pair tried answers the same from whatever font
\* size the pairs before it left on the layout
IndependentOfEarlierProbes(i) ==
    \A cur \in Range(font_sizes) \cup {0} :
        LET g == GrowToMaximumFontSize(font_sizes, fit, tried[i].width,
                                       tried[i].height, cur, searchImpl)
        IN  /\ g.result = tried[i].result
            /\ g.font_size = tried[i].font_size
            /\ g.probes = tried[i].probes

----------------------------------------------------------------------------
\* a total was returned and is the sum a + b
IsSum(out, a, b) == out # <<>> => out[1] = Ok(a + b)

\* C30: for all 16-bit sides the total horizontal padding is left + right
\* and the total vertical padding is top + bottom, as integers: the sum
\* neither wraps nor overflows before it is widened to an i32.
C30_TotalsAreSums ==
    fn_in.kind = "sides" =>
        /\ IsSum(fn_out.total_horizontal, fn_in.padding.left, fn_in.padding.right)
        /\ IsSum(fn_out.total_vertical, fn_in.padding.top, fn_in.padding.bottom)
        /\ IsSum(fn_out.horizontal, fn_in.padding.left, fn_in.padding.right)
        /\ IsSum(fn_out.vertical, fn_in.padding.top, fn_in.padding.bottom)

\* no sum of two sides exceeds u16::MAX
SumsFitU16 ==
    /\ fn_in.padding.left + fn_in.padding.right <= U16_MAX
    /\ fn_in.padding.top + fn_in.padding.bottom <= U16_MAX

====
